---- MODULE Spec2Model ----
(***************************************************************************)
(* CaseLoad: the incremental synchronisation of CVE trackers.              *)
(*                                                                         *)
(* The model covers the POST /sync trigger (app/blueprints/main), the      *)
(* config reconciler (data/config_loader.py), the Jira adapter's paginated *)
(* fetch (data/sources/jira_source.py), the sync service                   *)
(* (data/sync/sync_service.py), the watermark store (app/models/util.py)   *)
(* and the unique/NOT NULL constraints of the entity tables (app/models).  *)
(*                                                                         *)
(* The database is a committed store `db` plus, per request worker, the    *)
(* SQLAlchemy session's uncommitted state: rows already flushed to the     *)
(* open transaction (`pend`), Tracker objects added but not yet flushed    *)
(* (`unfl`), the "transaction rolled back by a failed flush" flag          *)
(* (`deact`) and the objects the session holds (`orm`).  A worker sees     *)
(* the committed rows overlaid with its own flushed rows, never another    *)
(* worker's.  The database is SQLite, the default of app/config.py: one    *)
(* session writes at a time, and a write statement that meets the open     *)
(* transaction of another session raises OperationalError.                 *)
(***************************************************************************)
EXTENDS Integers, Sequences, FiniteSets, TLC

NULL == "NULL"

\* A date that is None (dates are clock readings 0, 1, ...).
NoTime == 0 - 1

\* ---------------------------------------------------------------- bounds
MaxTriggers == 2        \* POST /sync requests started in one behaviour
MaxClock == 2           \* the wall clock runs over 0..MaxClock
TicksPerMinute == 2     \* clock ticks in one minute of strftime("%H:%M")
MaxFragments == 3       \* pieces a summary text is made of
MaxSets == 3            \* Util.set_last_sync calls a caller makes on its own
MaxShifts == 2          \* changes of the remote result set during one run

\* ------------------------------------------------------ program constants
max_results == 100      \* jira_source.py: page size of search_issues

AllWorkers == {1, 2}

\* ---------------------------------------------------------------- text
\* A str whose letter case matters is a sequence of one-character strings;
\* NullText is None where such a str is expected.
NullText == <<"#None">>

UpperCase == <<"A", "B", "C", "D", "E", "F", "G", "H", "I", "J", "K", "L", "M",
               "N", "O", "P", "Q", "R", "S", "T", "U", "V", "W", "X", "Y", "Z">>
LowerCase == <<"a", "b", "c", "d", "e", "f", "g", "h", "i", "j", "k", "l", "m",
               "n", "o", "p", "q", "r", "s", "t", "u", "v", "w", "x", "y", "z">>

\* str.lower() and str.upper(), character by character.
LowerChar(c) ==
    IF \E i \in 1..26 : UpperCase[i] = c
    THEN LowerCase[CHOOSE i \in 1..26 : UpperCase[i] = c] ELSE c
UpperChar(c) ==
    IF \E i \in 1..26 : LowerCase[i] = c
    THEN UpperCase[CHOOSE i \in 1..26 : LowerCase[i] = c] ELSE c
Lower(text) == [i \in 1..Len(text) |-> LowerChar(text[i])]
Upper(text) == [i \in 1..Len(text) |-> UpperChar(text[i])]

Open == <<"O", "p", "e", "n">>
Closed == <<"C", "l", "o", "s", "e", "d">>

Digits == {"0", "1", "2", "3", "4", "5", "6", "7", "8", "9"}

\* The number of digits the text holds from position i on, up to the first
\* character that is none.
RECURSIVE DigitRun(_, _)
DigitRun(text, i) ==
    IF i > Len(text) \/ text[i] \notin Digits THEN 0 ELSE 1 + DigitRun(text, i + 1)

\* CVE_PATTERN = re.compile(r"CVE-\d{4}-\d{4,}", re.IGNORECASE) tried at
\* position i: the length of the match, 0 when there is none.  \d{4,} is
\* greedy and nothing follows it.
CvePatternMatch(text, i) ==
    IF /\ i + 8 <= Len(text)
       /\ Lower(SubSeq(text, i, i + 3)) = <<"c", "v", "e", "-">>
       /\ DigitRun(text, i + 4) = 4
       /\ text[i + 8] = "-"
       /\ DigitRun(text, i + 9) >= 4
    THEN 9 + DigitRun(text, i + 9) ELSE 0

\* CVE_PATTERN.findall(text): the matches from left to right, none overlapping.
RECURSIVE FindAll(_, _)
FindAll(text, i) ==
    IF i > Len(text) THEN <<>>
    ELSE LET n == CvePatternMatch(text, i)
         IN IF n = 0 THEN FindAll(text, i + 1)
            ELSE <<SubSeq(text, i, i + n - 1)>> \o FindAll(text, i + n)

\* The orders in which iterating a set can give its elements.
Orders(S) ==
    {q \in [1..Cardinality(S) -> S] : \A i, j \in 1..Cardinality(S) : i # j => q[i] # q[j]}

\* JiraDataSource._extract_cve_ids (jira_source.py 223-226): the lists
\* [cve.upper() for cve in set(matches)] can be, one per iteration order.
ExtractCveIds(text) ==
    LET matches == FindAll(text, 1)
    IN {[i \in DOMAIN order |-> Upper(order[i])] :
            order \in Orders({matches[i] : i \in DOMAIN matches})}

\* Summaries: up to MaxFragments of these pieces, one after the other.
FragUpper == <<"C", "V", "E", "-", "2", "0", "2", "4", "-", "0", "0", "0", "1">>
FragLower == <<"c", "v", "e", "-", "2", "0", "2", "4", "-", "0", "0", "0", "1">>
FragMixed == <<"C", "v", "e", "-", "2", "0", "2", "4", "-", "0", "0", "0", "2">>
FragShort == <<"C", "V", "E", "-", "2", "0", "2", "4", "-", "0", "0", "1">>
Fragments == {FragUpper, FragLower, FragMixed, FragShort, <<" ">>, <<"7">>}

RECURSIVE Texts(_)
Texts(n) ==
    IF n = 0 THEN {<<>>}
    ELSE Texts(n - 1) \cup {t \o f : t \in Texts(n - 1), f \in Fragments}

\* The spellings of a word in upper and lower case letters.
RECURSIVE Spellings(_)
Spellings(word) ==
    IF word = <<>> THEN {<<>>}
    ELSE {<<c>> \o rest : c \in {LowerChar(Head(word)), UpperChar(Head(word))},
                          rest \in Spellings(Tail(word))}

\* ------------------------------------------------------------- records
\* RawTracker (data/sources/base.py): the fields the sync service reads.
\* cve_ids is a list; NotIterable stands for a record whose cve_ids is None
\* (iterating it raises TypeError), an element NULL for a None in the list.
NotIterable == <<"#None">>
Raw(k, p, c, s) ==
    [source_key |-> k, project_key |-> p, cve_ids |-> c, status |-> s,
     summary |-> NULL, resolution |-> NULL, priority |-> NULL, severity |-> NULL,
     assignee |-> NULL, reporter |-> NULL, created_date |-> NoTime,
     updated_date |-> NoTime, resolved_date |-> NoTime, due_date |-> NoTime,
     sla_date |-> NoTime]

RA == [Raw("T1", "P1", <<"C1", "C2">>, Open) EXCEPT
          !.summary = "s1", !.priority = "Major", !.severity = "Important",
          !.assignee = "ann", !.created_date = 0, !.updated_date = 0, !.due_date = 1,
          !.sla_date = 1]
RB == [Raw("T1", "P1", <<"C1", "C2">>, Closed) EXCEPT
          !.summary = "s2", !.resolution = "Done", !.reporter = "bob",
          !.created_date = 0, !.updated_date = 1, !.resolved_date = 1]
RC == Raw("T2", "P2", <<>>, Open)
RD == Raw("T2", "P1", <<"C2", "C1">>, Open)
RE == Raw("T2", "P2", NotIterable, Open)
RF == Raw("T2", NULL, <<"C1">>, Open)
RG == Raw("T2", "P2", <<"C2">>, Open)
RK == Raw("T2", "P2", <<"C1", NULL>>, Open)

\* Result sets the external search can hold for one run (the adapter output
\* when no page request fails).  Cycle(t, n): n issues with the fields of the
\* records of t in turn; the i-th one has the key <<key, i>> (an issue key is
\* a project's prefix and a number) and was updated at time i.
Cycle(t, n) ==
    [i \in 1..n |-> [t[((i - 1) % Len(t)) + 1] EXCEPT !.source_key = <<@, i>>,
                                                      !.updated_date = i]]

SmallSources ==
    { <<>>, <<RA>>, <<RB>>, <<RC>>, <<RD>>, <<RA, RC>>, <<RC, RA>>, <<RA, RB>>,
      <<RE>>, <<RE, RA>>, <<RF>>, <<RA, RF>>, <<RF, RC>>, <<RD, RE>>, <<RA, RG>>,
      <<RK>> }

PagedSources ==
    { <<>>, Cycle(<<RA>>, 1), Cycle(<<RD>>, max_results - 1), Cycle(<<RD>>, max_results),
      Cycle(<<RA, RC>>, max_results + 1), Cycle(<<RA, RC>>, 2 * max_results) }

\* ------------------------------------------------------------- configs
\* config/teams.json as load_teams_config returns it.
TeamCfg(n, d, ps) == [name |-> n, description |-> d, projects |-> ps]

\* project_dependencies lists the items <<downstream_key, upstream_keys>> of
\* the JSON object in file order.
CfgNone == [teams |-> <<>>, project_dependencies |-> <<>>]
CfgOne == [teams |-> <<TeamCfg("TA", "d1", <<"P1">>)>>,
           project_dependencies |-> << <<"P1", <<"P2">>>> >>]
CfgTwo == [teams |-> <<TeamCfg("TA", "d2", <<"P1">>), TeamCfg("TB", NULL, <<"P2", "P1">>)>>,
           project_dependencies |-> << <<"P2", <<"P1", "P1">>>>,
                                       <<"P9", <<"P1">>>>,
                                       <<"P1", <<"P1", "P9">>>> >>]
Configs == {CfgNone, CfgOne, CfgTwo}

\* ------------------------------------------------------------ the store
VARIABLES
    db,         \* committed rows: [teams, projects, cves, trackers, deps, util]
    pend,       \* pend[w]: rows worker w's session wrote to its open transaction
    unfl,       \* unfl[w]: Tracker rows added to w's session, not yet flushed
    deact,      \* deact[w]: w's transaction was rolled back by a failed flush
    orm,        \* orm[w]: the objects of w's session (objs), their values when
                \*         loaded or last flushed (orig), the dependency edges
                \*         (edges) and Util writes (kv) not yet flushed, and
                \*         the committed store its latest queries read (seen)
    clock       \* datetime.utcnow()

Tables == {"teams", "projects", "cves", "trackers"}

EmptyDb == [teams |-> {}, projects |-> {}, cves |-> {}, trackers |-> {},
            deps |-> {}, util |-> {}]

\* The column of each table that carries unique=True, nullable=False.
KeyOf(t, row) ==
    CASE t = "teams" -> row.name
      [] t = "projects" -> row.key
      [] t = "cves" -> row.cve_id
      [] t = "trackers" -> row.jira_key

Ids(rows) == {r.id : r \in rows}

\* Mutant of OverlayRows: a transaction that wrote rows of a table leaves
\* only those rows in it.
OverlayRowsReplace(base, over) == IF over = {} THEN base ELSE over

\* Rows of `over` replace the rows of `base` with the same primary key.
OverlayRows(base, over) ==
    LET ids == Ids(over) IN {r \in base : r.id \notin ids} \cup over

Overlay(base, d) ==
    [teams |-> OverlayRows(base.teams, d.teams),
     projects |-> OverlayRows(base.projects, d.projects),
     cves |-> OverlayRows(base.cves, d.cves),
     trackers |-> OverlayRows(base.trackers, d.trackers),
     deps |-> base.deps \cup d.deps,
     util |-> {u \in base.util : u.key \notin {v.key : v \in d.util}} \cup d.util]

\* --------------------------------------------------------- the session
\* A session value: [pend, unfl, deact, orm] of one worker.
Sess(p, u, d, o) == [pend |-> p, unfl |-> u, deact |-> d, orm |-> o]

\* seen is a set of at most one store; Fresh: the session's queries read the
\* store as it is committed now.  loaded: the ids of the Projects whose
\* upstream_dependencies the session has loaded; links: the edges those
\* collections hold.
Fresh == {}
NoObjects == [objs |-> EmptyDb, orig |-> EmptyDb, edges |-> {}, kv |-> {}, seen |-> Fresh,
              loaded |-> {}, links |-> {}]

\* The committed store the queries of the session read.  The default engine
\* is SQLite (app/config.py 13-15), where a SELECT outside a write
\* transaction reads the committed rows of the moment it runs.
Seen(s) == IF s.orm.seen = Fresh THEN db ELSE CHOOSE d \in s.orm.seen : TRUE

\* What a query of the session reads: committed rows and the rows the
\* session itself wrote to its transaction, never another session's.
View(s) == Overlay(Seen(s), s.pend)

\* The rows of table t a query of the session reads.
Rows(s, t) == OverlayRows(Seen(s)[t], s.pend[t])

\* The store as the next write statement of the session finds it.
Current(s) == Overlay(db, s.pend)

\* SQLite lets one connection write at a time: a session that wrote holds the
\* write lock until it commits or rolls back.  A write statement of a session
\* without the lock, while another session holds it, waits for the holder
\* and raises OperationalError ("database is locked") at the busy timeout.
Holds(p) == p # EmptyDb
OtherHolds(w) == \E o \in AllWorkers \ {w} : Holds(pend[o])
Locked(w, s) == ~Holds(s.pend) /\ OtherHolds(w)

\* The session after a write statement succeeded: it holds the write lock,
\* and what it reads from now on is the store as committed now.
Wrote(s) == [s EXCEPT !.orm.seen = Fresh]

\* A fresh surrogate primary key (autoincrement id) for a row with unique
\* key k, distinct from every id in use.  NullId is a NULL foreign key.
NullId == <<NULL, 0>>
AllRows(t) == db[t] \cup UNION {pend[o][t] \cup (IF t = "trackers" THEN unfl[o] ELSE {}) : o \in AllWorkers}

NewId(t, k, extra) ==
    LET used == {r.id[2] : r \in {x \in AllRows(t) \cup extra : x.id[1] = k}}
    IN <<k, IF used = {} THEN 0 ELSE 1 + (CHOOSE n \in used : \A m \in used : m <= n)>>

\* Mutant of UniqueViolation: only the rows the session itself sees count.
UniqueViolationLocal(w, t, k, rows) ==
    \E r \in rows : KeyOf(t, r) = k

\* unique=True on Tracker.jira_key, CVE.cve_id, Project.key, Team.name: an
\* INSERT of key k by worker w, whose queries saw `rows`, fails when a row
\* with that key is among them or is committed when the INSERT runs.
UniqueViolation(w, t, k, rows) ==
    \E r \in rows \cup db[t] : KeyOf(t, r) = k

\* nullable=False on the same columns.
NotNullViolation(k) == k = NULL

\* Mutant of InsertFails: the columns are not declared unique.
InsertFailsNoUnique(w, t, k, rows) == NotNullViolation(k)

\* Whether the INSERT of a row with key k raises IntegrityError at flush.
InsertFails(w, t, k, rows) == NotNullViolation(k) \/ UniqueViolation(w, t, k, rows)

\* The exception of an INSERT of key k into table t by the session, "" if
\* it succeeds: the statement takes the write lock first.
InsertExc(w, s, t, k) ==
    IF Locked(w, s) THEN "OperationalError"
    ELSE IF InsertFails(w, t, k, Rows(s, t)) THEN "IntegrityError"
    ELSE ""

\* A failed flush rolls the whole transaction back and leaves the session
\* inactive: every later statement raises PendingRollbackError until the
\* session is rolled back or removed.
RolledBack == Sess(EmptyDb, {}, TRUE, NoObjects)

\* The objects of table t an attribute of which the session changed since
\* it loaded or last flushed them.
Dirty(s, t) == {r \in s.orm.objs[t] : r \notin s.orm.orig[t]}

\* The UPDATE of a dirty object sets the columns whose value changed and
\* leaves the others as the row has them.
Merged(s, t, r) ==
    LET was == CHOOSE o \in s.orm.orig[t] : o.id = r.id
        cur == CHOOSE c \in OverlayRows(db[t], s.pend[t]) : c.id = r.id
    IN [c \in DOMAIN cur |-> IF r[c] # was[c] THEN r[c] ELSE cur[c]]

Updates(s, t) == {Merged(s, t, r) : r \in Dirty(s, t)}

\* Whether a flush of the session has a statement to send.
Unflushed(s) ==
    \/ s.unfl # {} \/ s.orm.edges # {} \/ s.orm.kv # {}
    \/ \E t \in Tables : Dirty(s, t) # {}

\* The exception a flush of the session raises, "" if none.
FlushExc(w, s) ==
    IF ~Unflushed(s) THEN ""
    ELSE IF Locked(w, s) THEN "OperationalError"
    ELSE IF \/ \E r \in s.unfl :
                  InsertFails(w, "trackers", r.jira_key,
                              Rows(s, "trackers") \cup (s.unfl \ {r}))
            \/ \E e \in s.orm.edges : e \in Current(s).deps
            \/ \E u \in s.orm.kv : u.insert /\ \E v \in Current(s).util : v.key = u.key
         THEN "IntegrityError"
         ELSE ""

FlushOk(w, s) == FlushExc(w, s) = ""

\* session.flush(), also run by autoflush before every query: the INSERTs of
\* the objects added and the UPDATEs of the objects changed.  The session
\* refers to an object strongly only while it is new or changed: after the
\* flush the objects that no local variable of the caller names are gone, and
\* the next query for their row loads it from the store again.
Flush(w, s) ==
    IF ~Unflushed(s) THEN [s EXCEPT !.orm.objs = EmptyDb, !.orm.orig = EmptyDb]
    ELSE IF FlushOk(w, s)
         THEN      Sess([s.pend EXCEPT
                          !.teams = OverlayRows(@, Updates(s, "teams")),
                          !.projects = OverlayRows(@, Updates(s, "projects")),
                          !.trackers = OverlayRows(OverlayRows(@, Updates(s, "trackers")),
                                                   s.unfl),
                          !.deps = @ \cup s.orm.edges,
                          !.util = {u \in @ : u.key \notin {v.key : v \in s.orm.kv}}
                                      \cup {[key |-> v.key, value |-> v.value] :
                                                v \in s.orm.kv}],
                       {}, FALSE,
                       [objs |-> EmptyDb, orig |-> EmptyDb, edges |-> {}, kv |-> {},
                        seen |-> Fresh, loaded |-> s.orm.loaded, links |-> s.orm.links])
         ELSE RolledBack

\* Mutant of FlushForCommit: the commit does not flush; the objects added
\* since the last flush are dropped.
FlushForCommitSkipped(w, s) ==
    IF s.deact THEN [s |-> s, exc |-> "PendingRollbackError"]
    ELSE [s |-> Sess(s.pend, {}, FALSE, NoObjects), exc |-> ""]

\* session.commit() up to its flush: the statements of what is new or changed
\* are sent, the first of them takes the write lock; the COMMIT is yet to be
\* sent.  Yields the session after it and the exception it raised.
FlushForCommit(w, s) ==
    IF s.deact THEN [s |-> s, exc |-> "PendingRollbackError"]
    ELSE IF FlushOk(w, s) THEN [s |-> Flush(w, s), exc |-> ""]
    ELSE [s |-> RolledBack, exc |-> FlushExc(w, s)]

\* Model.query.filter_by(col=k).first(): the row is found in what the session
\* reads; an object the session holds already keeps the values it has there.
QueryFirst(s, t, k) ==
    LET hit == {r \in Rows(s, t) : KeyOf(t, r) = k}
    IN IF hit = {} THEN {}
       ELSE LET row == CHOOSE r \in hit : TRUE
                obj == {o \in s.orm.objs[t] : o.id = row.id}
            IN IF obj # {} THEN obj ELSE {row}

\* The session after an attribute assignment made object `loaded` of table t
\* read `new`.
Assign(s, t, loaded, new) ==
    [s EXCEPT !.orm.objs[t] = OverlayRows(@, {new}),
              !.orm.orig[t] = IF loaded.id \in Ids(@) THEN @ ELSE @ \cup {loaded}]

\* ------------------------------------------------------ the sync service
NewStats == [trackers_created |-> 0, trackers_updated |-> 0, cves_created |-> 0,
             projects_created |-> 0, errors |-> <<>>]

\* Result of a step of _process_tracker: session, stats, exception ("" if none).
Res(s, st, exc) == [s |-> s, stats |-> st, exc |-> exc]

\* A Tracker row with the fields lines 129-143 assign.
TrackerRow(id, raw, project_id, cve_id, now) ==
    [id |-> id, jira_key |-> raw.source_key, project_id |-> project_id,
     cve_id |-> cve_id, summary |-> raw.summary, status |-> raw.status,
     resolution |-> raw.resolution, priority |-> raw.priority,
     severity |-> raw.severity, assignee |-> raw.assignee, reporter |-> raw.reporter,
     created_date |-> raw.created_date, updated_date |-> raw.updated_date,
     resolved_date |-> raw.resolved_date, due_date |-> raw.due_date,
     sla_date |-> raw.sla_date, last_synced_at |-> now]

\* Mutant of TrackerStep: the fields of an existing tracker are left as they
\* are, only the sync stamp is renewed.
TrackerStepKeep(w, s, raw, st, project, cve) ==
    LET found == QueryFirst(s, "trackers", raw.source_key)
        cveId == IF cve = {} THEN NullId ELSE (CHOOSE c \in cve : TRUE).id
        fields(id) == TrackerRow(id, raw, project.id, cveId, clock)
    IN IF found # {}
       THEN LET row == [(CHOOSE r \in found : TRUE) EXCEPT !.last_synced_at = clock]
            IN Res(Assign(s, "trackers", CHOOSE r \in found : TRUE, row),
                   [st EXCEPT !.trackers_updated = @ + 1], "")
       ELSE LET row == fields(NewId("trackers", raw.source_key, s.unfl))
            IN Res([s EXCEPT !.unfl = @ \cup {row}],
                   [st EXCEPT !.trackers_created = @ + 1], "")

\* Mutant of TrackerStep: an existing tracker is counted as created.
TrackerStepMiscount(w, s, raw, st, project, cve) ==
    LET found == QueryFirst(s, "trackers", raw.source_key)
        cveId == IF cve = {} THEN NullId ELSE (CHOOSE c \in cve : TRUE).id
        fields(id) == TrackerRow(id, raw, project.id, cveId, clock)
    IN IF found # {}
       THEN LET row == fields((CHOOSE r \in found : TRUE).id)
            IN Res(Assign(s, "trackers", CHOOSE r \in found : TRUE, row),
                   [st EXCEPT !.trackers_created = @ + 1], "")
       ELSE LET row == fields(NewId("trackers", raw.source_key, s.unfl))
            IN Res([s EXCEPT !.unfl = @ \cup {row}],
                   [st EXCEPT !.trackers_created = @ + 1], "")

\* sync_service.py 118-143: get or create the tracker, overwrite its fields.
TrackerStep(w, s, raw, st, project, cve) ==
    LET found == QueryFirst(s, "trackers", raw.source_key)
        cveId == IF cve = {} THEN NullId ELSE (CHOOSE c \in cve : TRUE).id
        fields(id) == TrackerRow(id, raw, project.id, cveId, clock)
    IN IF found # {}
       THEN LET row == fields((CHOOSE r \in found : TRUE).id)
            IN Res(Assign(s, "trackers", CHOOSE r \in found : TRUE, row),
                   [st EXCEPT !.trackers_updated = @ + 1], "")
       ELSE LET row == fields(NewId("trackers", raw.source_key, s.unfl))
            IN Res([s EXCEPT !.unfl = @ \cup {row}],
                   [st EXCEPT !.trackers_created = @ + 1], "")

\* sync_service.py 106-116: get or create each CVE of the record, in order;
\* the variable cve ends as the last one processed.
RECURSIVE CveLoop(_, _, _, _, _, _, _)
CveLoop(w, s, raw, st, project, i, cve) ==
    IF i > Len(raw.cve_ids) THEN TrackerStep(w, s, raw, st, project, cve)
    ELSE LET cve_id == raw.cve_ids[i]
             existing == QueryFirst(s, "cves", cve_id)
         IN IF existing # {}
            THEN CveLoop(w, s, raw, st, project, i + 1, existing)
            ELSE IF InsertExc(w, s, "cves", cve_id) # ""
                 THEN Res(RolledBack, st, InsertExc(w, s, "cves", cve_id))
                 ELSE LET row == [id |-> NewId("cves", cve_id, {}), cve_id |-> cve_id]
                      IN CveLoop(w, [Wrote(s) EXCEPT !.pend.cves = @ \cup {row}], raw,
                                 [st EXCEPT !.cves_created = @ + 1], project, i + 1, {row})

\* Mutant of CveStep: the tracker is linked to the first CVE of the record.
CveLoopFirst(w, s, raw, st, project, i, cve) ==
    LET r == CveLoop(w, s, raw, st, project, i, cve)
        first == QueryFirst(r.s, "cves", raw.cve_ids[1])
        fix(rows) == {IF t.jira_key = raw.source_key
                      THEN [t EXCEPT !.cve_id = (CHOOSE c \in first : TRUE).id] ELSE t
                      : t \in rows}
    IN IF r.exc # "" \/ first = {} THEN r
       ELSE [r EXCEPT !.s.orm.objs.trackers = fix(@), !.s.unfl = fix(@)]

CveStepFirst(w, s, raw, st, project) ==
    IF raw.cve_ids = NotIterable THEN Res(s, st, "TypeError")
    ELSE IF raw.cve_ids = <<>> THEN CveLoop(w, s, raw, st, project, 1, {})
    ELSE CveLoopFirst(w, s, raw, st, project, 1, {})

\* sync_service.py 107-116: the loop over raw.cve_ids.
CveStep(w, s, raw, st, project) ==
    IF raw.cve_ids = NotIterable THEN Res(s, st, "TypeError")
    ELSE CveLoop(w, s, raw, st, project, 1, {})

\* Mutant of ProjectStep: a Project the run creates is filed under a Team
\* "Unassigned", which the run creates when it is missing.
ProjectStepDefaultTeam(w, s, raw, st) ==
    LET found == QueryFirst(s, "projects", raw.project_key)
        team == QueryFirst(s, "teams", "Unassigned")
        new == [id |-> NewId("teams", "Unassigned", {}), name |-> "Unassigned",
                description |-> NULL]
        teamRow == IF team = {} THEN new ELSE CHOOSE r \in team : TRUE
    IN IF found # {}
       THEN CveStep(w, s, raw, st, CHOOSE r \in found : TRUE)
       ELSE IF InsertExc(w, s, "projects", raw.project_key) # ""
            THEN Res(RolledBack, st, InsertExc(w, s, "projects", raw.project_key))
            ELSE LET row == [id |-> NewId("projects", raw.project_key, {}),
                             key |-> raw.project_key, name |-> raw.project_key,
                             team_id |-> teamRow.id]
                 IN CveStep(w, [Wrote(s) EXCEPT !.pend.projects = @ \cup {row},
                                                !.pend.teams = OverlayRows(@, {teamRow})], raw,
                            [st EXCEPT !.projects_created = @ + 1], row)

\* Mutant of ProjectStep: the new Project is never added to the session.
ProjectStepNoAdd(w, s, raw, st) ==
    LET found == QueryFirst(s, "projects", raw.project_key)
    IN IF found # {}
       THEN CveStep(w, s, raw, st, CHOOSE r \in found : TRUE)
       ELSE IF InsertExc(w, s, "projects", raw.project_key) # ""
            THEN Res(RolledBack, st, InsertExc(w, s, "projects", raw.project_key))
            ELSE LET row == [id |-> NewId("projects", raw.project_key, {}),
                             key |-> raw.project_key, name |-> raw.project_key,
                             team_id |-> NullId]
                 IN CveStep(w, s, raw, [st EXCEPT !.projects_created = @ + 1], row)

\* sync_service.py 97-104: get or create the project.
ProjectStep(w, s, raw, st) ==
    LET found == QueryFirst(s, "projects", raw.project_key)
    IN IF found # {}
       THEN CveStep(w, s, raw, st, CHOOSE r \in found : TRUE)
       ELSE IF InsertExc(w, s, "projects", raw.project_key) # ""
            THEN Res(RolledBack, st, InsertExc(w, s, "projects", raw.project_key))
            ELSE LET row == [id |-> NewId("projects", raw.project_key, {}),
                             key |-> raw.project_key, name |-> raw.project_key,
                             team_id |-> NullId]
                 IN CveStep(w, [Wrote(s) EXCEPT !.pend.projects = @ \cup {row}], raw,
                            [st EXCEPT !.projects_created = @ + 1], row)

\* SyncService._process_tracker.  Its first query autoflushes the Tracker the
\* previous record added; in an inactive session that query already raises.
ProcessTracker(w, s, raw, st) ==
    IF s.deact THEN Res(s, st, "PendingRollbackError")
    ELSE LET f == Flush(w, s)
         IN IF f.deact THEN Res(f, st, FlushExc(w, s))
            ELSE ProjectStep(w, f, raw, st)

\* Mutant of LoopBody: the exception of a record is caught and not recorded.
LoopBodySilent(w, s, raw, st) ==
    LET r == ProcessTracker(w, s, raw, st)
    IN IF r.exc = "" THEN r ELSE Res(r.s, r.stats, r.exc)

\* The body of the for loop of sync_from_source (lines 66-73): the record's
\* exception is caught and recorded under the record's source_key.
LoopBody(w, s, raw, st) ==
    LET r == ProcessTracker(w, s, raw, st)
    IN IF r.exc = "" THEN r
       ELSE Res(r.s, [r.stats EXCEPT !.errors = Append(@, <<raw.source_key, r.exc>>)], r.exc)

\* ------------------------------------------------ properties of the rows
\* tracker.py 49: the statuses that count as closed.
closed_statuses == {<<"d", "o", "n", "e">>, <<"c", "l", "o", "s", "e", "d">>,
                    <<"r", "e", "s", "o", "l", "v", "e", "d">>,
                    <<"c", "a", "n", "c", "e", "l", "l", "e", "d">>}

\* Mutant of IsOpen: the status is compared as it is spelled.
IsOpenCaseSensitive(tracker) ==
    IF tracker.status # NullText /\ tracker.status # <<>>
    THEN tracker.status \notin closed_statuses
    ELSE TRUE

\* Tracker.is_open (tracker.py 46-50): a status that is None or "" is falsy.
IsOpen(tracker) ==
    IF tracker.status # NullText /\ tracker.status # <<>>
    THEN Lower(tracker.status) \notin closed_statuses
    ELSE TRUE

\* The relationships tracker.project and project.team: the row the foreign
\* key names, as a set of at most one row (empty: None).
ProjectOf(d, tracker) == {p \in d.projects : p.id = tracker.project_id}
TeamOf(d, project) == {t \in d.teams : t.id = project.team_id}

\* Mutant of AffectedLoop: a tracker's team replaces the teams found so far.
RECURSIVE AffectedLoopOverwriting(_, _, _)
AffectedLoopOverwriting(d, trackers, teams) ==
    IF trackers = {} THEN teams
    ELSE LET tracker == CHOOSE t \in trackers : TRUE
             team == UNION {TeamOf(d, p) : p \in ProjectOf(d, tracker)}
         IN AffectedLoopOverwriting(d, trackers \ {tracker},
                                    IF team # {} THEN team ELSE teams)

\* cve.py 34-37: the loop over self.trackers, which adds the team of every
\* tracker that has a project with a team.
RECURSIVE AffectedLoop(_, _, _)
AffectedLoop(d, trackers, teams) ==
    IF trackers = {} THEN teams
    ELSE LET tracker == CHOOSE t \in trackers : TRUE
             team == UNION {TeamOf(d, p) : p \in ProjectOf(d, tracker)}
         IN AffectedLoop(d, trackers \ {tracker},
                         IF ProjectOf(d, tracker) # {} /\ team # {}
                         THEN teams \cup team ELSE teams)

\* CVE.affected_teams (cve.py 31-38) read on store d: self.trackers is the
\* query for the Trackers whose cve_id is this CVE's id; the lists
\* list(teams) can be, one per iteration order.
AffectedTeams(d, cve) ==
    Orders(AffectedLoop(d, {t \in d.trackers : t.cve_id = cve.id}, {}))

\* -------------------------------------------------- the config reconciler
\* The project keys the /sync route collects from the config (lines 48-51).
RECURSIVE ProjectKeys(_, _)
ProjectKeys(teams, i) ==
    IF i > Len(teams) THEN <<>> ELSE teams[i].projects \o ProjectKeys(teams, i + 1)

\* config_loader.py 41: the stats sync_teams_from_config starts from.
NewConfigStats == [teams_created |-> 0, teams_updated |-> 0, projects_created |-> 0]

\* Where sync_teams_from_config stands: before the query of team i (line
\* 45), of project j of team i (line 58), of the downstream Project of item
\* i of project_dependencies (line 70, j = 0), of the item's upstream j (line
\* 73), before its commit (line 77), or after the flush of that commit, with
\* the COMMIT yet to be sent ("flushed").
ConfigPos(ph, i, j) == [ph |-> ph, i |-> i, j |-> j]

AfterTeams(config) ==
    IF config.project_dependencies # <<>> THEN ConfigPos("dep", 1, 0)
    ELSE ConfigPos("commit", 0, 0)

\* The position after project j of team i (j = 0: after the team itself).
AfterProject(config, i, j) ==
    IF j < Len(config.teams[i].projects) THEN ConfigPos("proj", i, j + 1)
    ELSE IF i < Len(config.teams) THEN ConfigPos("team", i + 1, 0)
    ELSE AfterTeams(config)

\* The position after item i of project_dependencies.
AfterItem(config, i) ==
    IF i < Len(config.project_dependencies) THEN ConfigPos("dep", i + 1, 0)
    ELSE ConfigPos("commit", 0, 0)

\* The position after upstream j of item i (j = 0: after its downstream).
AfterUpstream(config, i, j) ==
    IF j < Len(config.project_dependencies[i][2]) THEN ConfigPos("dep", i, j + 1)
    ELSE AfterItem(config, i)

ConfigStart(config) ==
    IF config.teams # <<>> THEN ConfigPos("team", 1, 0) ELSE AfterTeams(config)

\* Result of a part of sync_teams_from_config: session, stats, exception ("" if
\* none) and the position reached.
ConfigRes(s, st, exc, pos) == [s |-> s, stats |-> st, exc |-> exc, pos |-> pos]

\* config_loader.py 45-54: get or create team i, update its description,
\* flush.
ConfigTeam(w, s, config, i, st) ==
    LET team_data == config.teams[i]
        found == QueryFirst(s, "teams", team_data.name)
        here == ConfigPos("team", i, 0)
        next == AfterProject(config, i, 0)
    IN IF found = {}
       THEN IF InsertExc(w, s, "teams", team_data.name) # ""
            THEN ConfigRes(RolledBack, st, InsertExc(w, s, "teams", team_data.name), here)
            ELSE LET team == [id |-> NewId("teams", team_data.name, {}),
                              name |-> team_data.name,
                              description |-> team_data.description]
                 IN ConfigRes([Wrote(s) EXCEPT !.pend.teams = @ \cup {team}],
                              [st EXCEPT !.teams_created = @ + 1], "", next)
       ELSE LET loaded == CHOOSE r \in found : TRUE
                a == Assign(s, "teams", loaded,
                            [loaded EXCEPT !.description = team_data.description])
                f == Flush(w, a)
            IN IF f.deact THEN ConfigRes(f, st, FlushExc(w, a), here)
               ELSE ConfigRes(f, [st EXCEPT !.teams_updated = @ + 1], "", next)

\* config_loader.py 58-64: get or create project j of team i and put it under
\* the team.  What the step adds or changes is flushed by the query or the
\* flush that follows it (lines 45, 58, 66, 70).
ConfigProject(w, s, config, i, j, st) ==
    LET key == config.teams[i].projects[j]
        team == CHOOSE r \in QueryFirst(s, "teams", config.teams[i].name) : TRUE
        found == QueryFirst(s, "projects", key)
        here == ConfigPos("proj", i, j)
        next == AfterProject(config, i, j)
    IN IF found # {}
       THEN LET loaded == CHOOSE r \in found : TRUE
                a == Assign(s, "projects", loaded, [loaded EXCEPT !.team_id = team.id])
                f == Flush(w, a)
            IN IF f.deact THEN ConfigRes(f, st, FlushExc(w, a), here)
               ELSE ConfigRes(f, st, "", next)
       ELSE IF InsertExc(w, s, "projects", key) # ""
            THEN ConfigRes(RolledBack, st, InsertExc(w, s, "projects", key), here)
            ELSE LET row == [id |-> NewId("projects", key, {}), key |-> key,
                             name |-> key, team_id |-> team.id]
                 IN ConfigRes([Wrote(s) EXCEPT !.pend.projects = @ \cup {row}],
                              [st EXCEPT !.projects_created = @ + 1], "", next)

\* config_loader.py 70-71: the downstream Project of item i; its upstreams
\* are skipped when it does not exist.  The query flushes the edge appended
\* before it.
ConfigDownstream(w, s, config, i, st) ==
    LET Query(f) ==
            IF QueryFirst(f, "projects", config.project_dependencies[i][1]) # {}
            THEN ConfigRes(f, st, "", AfterUpstream(config, i, 0))
            ELSE ConfigRes(f, st, "", AfterItem(config, i))
    IN IF ~FlushOk(w, s) THEN ConfigRes(RolledBack, st, FlushExc(w, s), ConfigPos("dep", i, 0))
       ELSE Query(Flush(w, s))

\* downstream.upstream_dependencies (line 74): the collection is loaded from
\* the store when the session first reads it, and the object keeps it.
Collection(s, id) ==
    IF id \in s.orm.loaded THEN s
    ELSE [s EXCEPT !.orm.loaded = @ \cup {id},
                   !.orm.links = @ \cup {e \in View(s).deps : e.downstream_id = id}]

\* Mutant of ConfigUpstream: the upstream is appended without looking
\* whether the edge is there; the INSERT of a row whose primary key
\* (upstream_id, downstream_id) is taken fails at flush.
ConfigUpstreamUnchecked(w, s, config, i, j, st) ==
    LET next == AfterUpstream(config, i, j)
        AppendTo(g, edge) ==
            ConfigRes([g EXCEPT !.orm.edges = @ \cup {edge},
                                !.orm.links = @ \cup {edge}], st, "", next)
        Link(f, downstream, upstream) ==
            IF upstream = {} THEN ConfigRes(f, st, "", next)
            ELSE AppendTo(Collection(f, (CHOOSE r \in downstream : TRUE).id),
                        [upstream_id |-> (CHOOSE r \in upstream : TRUE).id,
                         downstream_id |-> (CHOOSE r \in downstream : TRUE).id])
        Queries(f) ==
            Link(f, QueryFirst(f, "projects", config.project_dependencies[i][1]),
                 QueryFirst(f, "projects", config.project_dependencies[i][2][j]))
    IN IF ~FlushOk(w, s) THEN ConfigRes(RolledBack, st, FlushExc(w, s), ConfigPos("dep", i, j))
       ELSE Queries(Flush(w, s))

\* config_loader.py 73-75: upstream j of item i is appended to the
\* downstream's upstream_dependencies when it exists and is not among them.
\* The query flushes the edge appended before it; the last one appended is
\* flushed by the commit.
ConfigUpstream(w, s, config, i, j, st) ==
    LET next == AfterUpstream(config, i, j)
        AppendTo(g, edge) ==
            IF edge \in g.orm.links THEN ConfigRes(g, st, "", next)
            ELSE ConfigRes([g EXCEPT !.orm.edges = @ \cup {edge},
                                     !.orm.links = @ \cup {edge}], st, "", next)
        Link(f, downstream, upstream) ==
            IF upstream = {} THEN ConfigRes(f, st, "", next)
            ELSE AppendTo(Collection(f, (CHOOSE r \in downstream : TRUE).id),
                        [upstream_id |-> (CHOOSE r \in upstream : TRUE).id,
                         downstream_id |-> (CHOOSE r \in downstream : TRUE).id])
        Queries(f) ==
            Link(f, QueryFirst(f, "projects", config.project_dependencies[i][1]),
                 QueryFirst(f, "projects", config.project_dependencies[i][2][j]))
    IN IF ~FlushOk(w, s) THEN ConfigRes(RolledBack, st, FlushExc(w, s), ConfigPos("dep", i, j))
       ELSE Queries(Flush(w, s))

\* config_loader.py 77, db.session.commit() up to its flush, which sends the
\* INSERT of the edge appended last.
ConfigCommit(w, s, st) ==
    LET Then(c) ==
            ConfigRes(c.s, st, c.exc,
                      ConfigPos(IF c.exc = "" THEN "flushed" ELSE "commit", 0, 0))
    IN Then(FlushForCommit(w, s))

\* The part of sync_teams_from_config at position pos.
ConfigPart(w, s, config, pos, st) ==
    CASE pos.ph = "commit" -> ConfigCommit(w, s, st)
      [] pos.ph = "team" -> ConfigTeam(w, s, config, pos.i, st)
      [] pos.ph = "proj" -> ConfigProject(w, s, config, pos.i, pos.j, st)
      [] pos.ph = "dep" /\ pos.j = 0 -> ConfigDownstream(w, s, config, pos.i, st)
      [] pos.ph = "dep" /\ pos.j > 0 -> ConfigUpstream(w, s, config, pos.i, pos.j, st)

\* sync_teams_from_config from position pos on.  Every query reads the rows
\* committed when it runs: as long as the session has sent no write
\* statement, another session can commit before the next query, so the run
\* stops after one part; once it holds the write lock nobody else commits
\* and it runs on up to the flush of its commit.
RECURSIVE ConfigRun(_, _, _, _, _)
ConfigRun(w, s, config, pos, st) ==
    LET Then(r) ==
            IF r.exc # "" \/ r.pos.ph = "flushed" \/ ~Holds(r.s.pend) THEN r
            ELSE ConfigRun(w, r.s, config, r.pos, r.stats)
    IN Then(ConfigPart(w, s, config, pos, st))

\* Mutant of SyncTeamsFromConfig: every project the config lists is counted
\* as created.
SyncTeamsFromConfigCountsListed(w, s, config, pos, st) ==
    IF s.deact THEN ConfigRes(s, st, "PendingRollbackError", pos)
    ELSE [ConfigRun(w, s, config, pos, st) EXCEPT
             !.stats.projects_created = Len(ProjectKeys(config.teams, 1))]

\* sync_teams_from_config from position pos up to the flush of its commit,
\* or up to the next query before which another session can commit.
SyncTeamsFromConfig(w, s, config, pos, st) ==
    IF s.deact THEN ConfigRes(s, st, "PendingRollbackError", pos)
    ELSE ConfigRun(w, s, config, pos, st)

Range(q) == {q[i] : i \in DOMAIN q}

\* ------------------------------------------------------ the watermark
\* A datetime is a clock reading n: minute n \div TicksPerMinute, second
\* n % TicksPerMinute of one fixed day.  Util.value is text.
DigitChars == <<"0", "1", "2", "3", "4", "5", "6", "7", "8", "9">>
TwoDigits(n) == <<DigitChars[(n \div 10) + 1], DigitChars[(n % 10) + 1]>>
DigitValue(c) == (CHOOSE i \in 1..10 : DigitChars[i] = c) - 1

\* datetime.isoformat(): the time of day as "MM:SS".
IsoFormat(dt) == TwoDigits(dt \div TicksPerMinute) \o <<":">> \o TwoDigits(dt % TicksPerMinute)

\* datetime.fromisoformat(): the clock reading the text names.
FromIsoFormat(text) ==
    (10 * DigitValue(text[1]) + DigitValue(text[2])) * TicksPerMinute
        + 10 * DigitValue(text[4]) + DigitValue(text[5])

\* Util.get(key): the value of the row, NULL when there is none.
UtilGet(s, key) ==
    LET hit == {u \in View(s).util : u.key = key}
    IN IF hit = {} THEN <<NULL>> ELSE (CHOOSE u \in hit : TRUE).value

\* Util.get_last_sync(): None (NoTime) when the value is None or "".
GetLastSync(s) ==
    LET value == UtilGet(s, "last_sync_datetime")
    IN IF value = <<NULL>> \/ value = <<>> THEN NoTime ELSE FromIsoFormat(value)

\* Mutant of UtilSet: a row that is there keeps its value.
UtilSetOnce(s, key, value) ==
    IF \E u \in View(s).util : u.key = key THEN s
    ELSE [s EXCEPT !.orm.kv = {[key |-> key, value |-> value, insert |-> TRUE]}]

\* Util.set(key, value) up to its commit (util.py 30-35): the row the query
\* finds gets the value, which is an UPDATE to flush when it differs from the
\* one loaded; without a row a new one is added, an INSERT to flush.
UtilSet(s, key, value) ==
    LET hit == {u \in View(s).util : u.key = key}
    IN IF hit = {}
       THEN [s EXCEPT !.orm.kv = {[key |-> key, value |-> value, insert |-> TRUE]}]
       ELSE IF (CHOOSE u \in hit : TRUE).value = value THEN s
       ELSE [s EXCEPT !.orm.kv = {[key |-> key, value |-> value, insert |-> FALSE]}]

\* Util.set(key, value) up to the flush of its commit (util.py 30-36): the
\* query autoflushes and raises in an inactive session; the commit sends the
\* UPDATE or INSERT of the row, which takes the write lock; the COMMIT is yet
\* to be sent.
UtilSetFlush(w, s, key, value) ==
    IF s.deact THEN [s |-> s, exc |-> "PendingRollbackError"]
    ELSE IF ~FlushOk(w, s) THEN [s |-> RolledBack, exc |-> FlushExc(w, s)]
    ELSE FlushForCommit(w, UtilSet(Flush(w, s), key, value))

\* since.strftime("%Y-%m-%d %H:%M"): the watermark cut to the minute.
Strftime(dt) == (dt \div TicksPerMinute) * TicksPerMinute

\* The JQL clause updated >= "<since>": whether an issue updated at time u
\* is inside the window of a fetch with this since (NoTime: full sync).
InWindow(u, since) == since = NoTime \/ u >= Strftime(since)

\* ------------------------------------------------------- the processes
VARIABLES
    pc,         \* pc[w]: where worker w stands in its request or call
    req,        \* req[w]: locals of the request: mode, project_keys, last_sync,
                \*         sync_start_time, result
    gen,        \* gen[w]: the fetch_trackers generator: kind, source, start_at,
                \*         total_fetched, issues (the page), idx, requests
    stats,      \* stats[w]: the stats dictionary of the running sync_from_source
    processed,  \* processed[w]: the counter of sync_from_source
    started,    \* requests and calls started so far
    snap,       \* snap[w]: the committed store when w's current run or call began
    prev,       \* the adapter output of the latest run, and whether it returned;
                \* the config of the latest reconciler run and what it left;
                \* the rows a run the adapter aborted left in a session that lives on
    call,       \* a function or property used on its own: its input and result
    log         \* log[w]: per iteration of the loop of sync_from_source so far,
                \*         what the iteration did

vars == <<db, pend, unfl, deact, orm, pc, req, gen, stats, processed, clock, started,
          snap, prev, call, log>>

Session(w) == Sess(pend[w], unfl[w], deact[w], orm[w])

\* The session of w after a step of w: what its next queries read is the
\* store as committed then.
SetSession(w, s) ==
    /\ pend' = [pend EXCEPT ![w] = s.pend]
    /\ unfl' = [unfl EXCEPT ![w] = s.unfl]
    /\ deact' = [deact EXCEPT ![w] = s.deact]
    /\ orm' = [orm EXCEPT ![w] = [s.orm EXCEPT !.seen = Fresh]]

\* Flask-SQLAlchemy removes the session when the request ends: what was not
\* committed is rolled back, the next request starts from a clean session.
CleanSession == Sess(EmptyDb, {}, FALSE, NoObjects)

\* error: what made sync_from_source raise ("" if nothing did); returned: it
\* returned its stats; wm_before: the watermark when the request began;
\* repeat: the run's adapter output is that of the run just before, which returned.
\* config: the config file as sync_teams_from_config read it; config_pos:
\* where sync_teams_from_config stands; config_stats: its stats so far, then
\* what it returned to the route;
\* config_repeat: the reconciler ran just before with this config, and the
\* Teams, Projects and dependency edges are as it left them;
\* overlapped: another sync run committed since this one began.
IdleReq == [mode |-> "none", project_keys |-> <<>>, last_sync |-> NoTime,
            sync_start_time |-> NoTime, result |-> "none", error |-> "",
            returned |-> FALSE, wm_before |-> NoTime, repeat |-> FALSE,
            config |-> CfgNone, config_pos |-> ConfigPos("commit", 0, 0),
            config_stats |-> NewConfigStats, config_repeat |-> FALSE,
            overlapped |-> FALSE]

\* The part of the store the config reconciler writes.
Reconciled(d) == [teams |-> d.teams, projects |-> d.projects, deps |-> d.deps]

\* requests: the page requests sent so far, each <<startAt, maxResults>>.
\* yielded: the records the generator yielded so far.  shifts: how often the
\* remote result set (source) changed since the generator was made; unstable:
\* the records that left or entered it then; lowered: the records that moved
\* to a lower offset in it then.
IdleGen == [kind |-> "none", source |-> <<>>, start_at |-> 0, total_fetched |-> 0,
            issues |-> <<>>, idx |-> 0, requests |-> <<>>, yielded |-> {},
            shifts |-> 0, unstable |-> {}, lowered |-> {}]

\* fn "extract": _extract_cve_ids(summary) gave cve_ids; fn "is_open": the
\* property is_open of a Tracker with this status, resolution, resolved_date.
\* fn "set_last_sync", "get_last_sync": the latest call of the accessor pair
\* by a caller of its own; dt: the datetime the set call under way was given;
\* dts: the datetimes the set calls that returned were given, in order;
\* value: what the latest get returned.
IdleCall == [fn |-> "none", summary |-> <<>>, cve_ids |-> <<>>, status |-> NullText,
             resolution |-> NULL, resolved_date |-> NoTime, is_open |-> FALSE,
             returned |-> FALSE, dt |-> NoTime, dts |-> <<>>, value |-> NoTime]

\* The Project, CVE and Tracker rows a session holds uncommitted: those it
\* wrote to its transaction, the Trackers it added and the rows its changed
\* objects become at the next flush.
HeldRows(s) ==
    [t \in Tables |-> OverlayRows(s.pend[t], Updates(s, t))
                         \cup (IF t = "trackers" THEN s.unfl ELSE {})]

InitProgram ==
    /\ db = EmptyDb
    /\ pend = [w \in AllWorkers |-> EmptyDb]
    /\ unfl = [w \in AllWorkers |-> {}]
    /\ deact = [w \in AllWorkers |-> FALSE]
    /\ orm = [w \in AllWorkers |-> NoObjects]
    /\ pc = [w \in AllWorkers |-> "idle"]
    /\ req = [w \in AllWorkers |-> IdleReq]
    /\ gen = [w \in AllWorkers |-> IdleGen]
    /\ stats = [w \in AllWorkers |-> NewStats]
    /\ processed = [w \in AllWorkers |-> 0]
    /\ clock = 0
    /\ started = 0
    /\ snap = [w \in AllWorkers |-> EmptyDb]
    /\ prev = [source |-> <<>>, returned |-> FALSE, reconciled |-> FALSE,
               config |-> CfgNone, left |-> Reconciled(EmptyDb),
               aborted |-> HeldRows(CleanSession)]
    /\ log = [w \in AllWorkers |-> <<>>]

Init == InitProgram /\ call = IdleCall

\* A record JiraDataSource._convert_issue can build (jira_source.py 145-190):
\* project_key is the key of the issue's project and cve_ids the list
\* _extract_cve_ids returns.
JiraRecord(raw) ==
    /\ raw.project_key # NULL
    /\ raw.cve_ids # NotIterable
    /\ \A i \in DOMAIN raw.cve_ids : raw.cve_ids[i] # NULL

\* The result sets the Jira search can hold for a request: the JQL clause
\* project IN (...) keeps the issues of the configured projects, each issue
\* is in the result set once, and the adapter converts each to a record.
JiraSources(all, keys) ==
    {src \in all :
        /\ \A i \in DOMAIN src : JiraRecord(src[i]) /\ src[i].project_key \in Range(keys)
        /\ \A i, j \in DOMAIN src : i # j => src[i].source_key # src[j].source_key}

\* session.commit() after its flush: the COMMIT makes the rows of the
\* session's transaction the committed ones and releases the write lock; the
\* objects of the session expire.
Committed(s) == Overlay(db, s.pend)

\* POST /sync arrives at worker w (main/__init__.py 32-40), with the config
\* file as it is then.
TriggerStart(w, config) ==
    /\ pc[w] = "idle"
    /\ started < MaxTriggers
    /\ started' = started + 1
    /\ pc' = [pc EXCEPT ![w] = "reconcile"]
    /\ req' = [req EXCEPT ![w] = [IdleReq EXCEPT !.mode = "trigger", !.config = config,
                                                 !.config_pos = ConfigStart(config),
                                                 !.wm_before = GetLastSync(CleanSession)]]
    /\ UNCHANGED <<call, log, db, pend, unfl, deact, orm, gen, stats, processed, clock,
                   snap, prev>>

\* sync_teams_from_config goes on (config_loader.py 44-77), up to the flush
\* of its commit or up to a query before which another request can commit.
\* An exception of it is not caught by the route: the request fails.
Reconcile(w) ==
    /\ pc[w] = "reconcile"
    /\ \E r \in {SyncTeamsFromConfig(w, Session(w), req[w].config, req[w].config_pos,
                                      req[w].config_stats)} :
          /\ SetSession(w, r.s)
          /\ IF r.exc # ""
             THEN /\ pc' = [pc EXCEPT ![w] = "done"]
                  /\ req' = [req EXCEPT ![w].result = "error500", ![w].error = r.exc,
                                        ![w].config_stats = NewConfigStats]
             ELSE /\ pc' = [pc EXCEPT ![w] = IF r.pos.ph = "flushed" THEN "reconciled"
                                              ELSE "reconcile"]
                  /\ req' = [req EXCEPT ![w].config_stats = r.stats,
                                        ![w].config_pos = r.pos]
    /\ UNCHANGED <<call, log, db, gen, stats, processed, clock, started, snap, prev>>

\* The COMMIT of the reconciler's commit and its return (config_loader.py
\* 77-78), then lines 41-51 of the route, which reads the config file again
\* (load_teams_config, line 48) and takes the project keys from what the
\* file holds then.
ReconcilerCommit(w, teams_config) ==
    /\ pc[w] = "reconciled"
    /\ db' = Committed(Session(w))
    /\ SetSession(w, CleanSession)
    /\ pc' = [pc EXCEPT ![w] = "keys"]
    /\ req' = [req EXCEPT ![w].project_keys = ProjectKeys(teams_config.teams, 1),
                          ![w].config_repeat = /\ prev.reconciled
                                               /\ prev.config = req[w].config
                                               /\ prev.left = Reconciled(db)]
    /\ prev' = [prev EXCEPT !.reconciled = TRUE, !.config = req[w].config,
                            !.left = Reconciled(db')]
    /\ UNCHANGED <<call, log, gen, stats, processed, clock, started, snap>>

\* The queries of the code w runs next, up to its first write statement, have
\* run: they read the store as committed now, while the write is yet to come
\* (it waits for the write lock, or the worker is not scheduled).
Look(w) ==
    /\ pc[w] \in {"reconcile", "process", "watermark"}
    /\ req[w].mode # "adapter"
    /\ ~deact[w] /\ ~Holds(pend[w])
    /\ orm[w].seen = Fresh
    /\ orm' = [orm EXCEPT ![w].seen = {db}]
    /\ UNCHANGED <<call, log, db, pend, unfl, deact, pc, req, gen, stats, processed,
                   clock, started, snap, prev>>

\* Lines 53-61 and 105-106: no project keys, or Jira not configured.
CheckKeys(w, jira_configured) ==
    /\ pc[w] = "keys"
    /\ IF req[w].project_keys = <<>>
       THEN /\ pc' = [pc EXCEPT ![w] = "done"]
            /\ req' = [req EXCEPT ![w].result = "no_projects"]
       ELSE IF ~jira_configured
            THEN /\ pc' = [pc EXCEPT ![w] = "done"]
                 /\ req' = [req EXCEPT ![w].result = "not_configured"]
            ELSE /\ pc' = [pc EXCEPT ![w] = "connect"]
                 /\ req' = req
    /\ UNCHANGED <<call, log, db, pend, unfl, deact, orm, gen, stats, processed, clock, started,
                   snap, prev>>

\* Lines 71-76: test_connection() returned failure.
ConnectFails(w) ==
    /\ pc[w] = "connect"
    /\ pc' = [pc EXCEPT ![w] = "done"]
    /\ req' = [req EXCEPT ![w].result = "connection_failed"]
    /\ UNCHANGED <<call, log, db, pend, unfl, deact, orm, gen, stats, processed, clock, started,
                   snap, prev>>

\* Mutant of Connect: the watermark is written before the run.
ConnectStamping(w, all, source) ==
    /\ pc[w] = "connect"
    /\ source \in JiraSources(all, req[w].project_keys)
    /\ pc' = [pc EXCEPT ![w] = "fetch"]
    /\ req' = [req EXCEPT ![w].last_sync = GetLastSync(Session(w)),
                          ![w].sync_start_time = clock,
                          ![w].repeat = prev.returned /\ prev.source = source]
    /\ db' = Committed(Flush(w, UtilSet(CleanSession, "last_sync_datetime",
                                        IsoFormat(clock))))
    /\ snap' = [snap EXCEPT ![w] = db']
    /\ gen' = [gen EXCEPT ![w] = [IdleGen EXCEPT !.kind = "jira", !.source = source]]
    /\ stats' = [stats EXCEPT ![w] = NewStats]
    /\ processed' = [processed EXCEPT ![w] = 0]
    /\ UNCHANGED <<call, log, pend, unfl, deact, orm, clock, started, prev>>

\* Lines 78-87 and sync_from_source 45-64: read the watermark, take the start
\* time, enter sync_from_source; the generator has not run yet.
Connect(w, all, source) ==
    /\ pc[w] = "connect"
    /\ source \in JiraSources(all, req[w].project_keys)
    /\ pc' = [pc EXCEPT ![w] = "fetch"]
    /\ req' = [req EXCEPT ![w].last_sync = GetLastSync(Session(w)),
                          ![w].sync_start_time = clock,
                          ![w].repeat = prev.returned /\ prev.source = source]
    /\ snap' = [snap EXCEPT ![w] = db]
    /\ gen' = [gen EXCEPT ![w] = [IdleGen EXCEPT !.kind = "jira", !.source = source]]
    /\ stats' = [stats EXCEPT ![w] = NewStats]
    /\ processed' = [processed EXCEPT ![w] = 0]
    /\ UNCHANGED <<call, log, db, pend, unfl, deact, orm, clock, started, prev>>

\* Mutant of DirectCall: project_keys is not checked.
DirectCallUnchecked(w, project_keys, source) ==
    /\ pc[w] = "idle"
    /\ started < MaxTriggers
    /\ started' = started + 1
    /\ pc' = [pc EXCEPT ![w] = IF source = <<>> THEN "commit" ELSE "process"]
    /\ req' = [req EXCEPT ![w] = [IdleReq EXCEPT !.mode = "direct",
                   !.project_keys = project_keys,
                   !.repeat = prev.returned /\ prev.source = source]]
    /\ gen' = [gen EXCEPT ![w] = [IdleGen EXCEPT !.kind = "generic",
                                      !.source = source, !.issues = source, !.idx = 1]]
    /\ stats' = [stats EXCEPT ![w] = NewStats]
    /\ processed' = [processed EXCEPT ![w] = 0]
    /\ snap' = [snap EXCEPT ![w] = db]
    /\ UNCHANGED <<call, log, db, pend, unfl, deact, orm, clock, prev>>

\* sync_from_source called by any other caller with any DataSource (the
\* records need not come from Jira).  Lines 45-46: an empty project_keys list
\* raises ValueError before anything else happens.
DirectCall(w, project_keys, source) ==
    /\ pc[w] = "idle"
    /\ started < MaxTriggers
    /\ started' = started + 1
    /\ IF project_keys = <<>>
       THEN /\ pc' = [pc EXCEPT ![w] = "done"]
            /\ req' = [req EXCEPT ![w] = [IdleReq EXCEPT !.mode = "direct",
                                                         !.result = "ValueError"]]
            /\ UNCHANGED <<gen, stats, processed>>
       ELSE /\ pc' = [pc EXCEPT ![w] = IF source = <<>> THEN "commit" ELSE "process"]
            /\ req' = [req EXCEPT ![w] = [IdleReq EXCEPT !.mode = "direct",
                           !.project_keys = project_keys,
                           !.repeat = prev.returned /\ prev.source = source]]
            /\ gen' = [gen EXCEPT ![w] = [IdleGen EXCEPT !.kind = "generic",
                                              !.source = source, !.issues = source, !.idx = 1]]
            /\ stats' = [stats EXCEPT ![w] = NewStats]
            /\ processed' = [processed EXCEPT ![w] = 0]
    /\ snap' = [snap EXCEPT ![w] = db]
    /\ UNCHANGED <<call, log, db, pend, unfl, deact, orm, clock, prev>>

Min(a, b) == IF a < b THEN a ELSE b

\* Mutant of SearchIssues: the page starts one issue too far.
SearchIssuesSkipping(source, startAt, maxResults) ==
    SubSeq(source, startAt + 2, Min(startAt + 1 + maxResults, Len(source)))

\* client.search_issues(jql, startAt, maxResults): one page of the result set.
SearchIssues(source, startAt, maxResults) ==
    SubSeq(source, startAt + 1, Min(startAt + maxResults, Len(source)))

\* The exception leaves sync_from_source before its commit: the route catches
\* it (lines 102-104), another caller receives it.
Raised(w, what) ==
    /\ pc' = [pc EXCEPT ![w] = "done"]
    /\ req' = [req EXCEPT ![w].result =
                   IF req[w].mode = "trigger" THEN "sync_failed" ELSE "raised",
                          ![w].error = what]
    /\ prev' = [prev EXCEPT !.returned = FALSE]

\* jira_source.py 112-130: one page request; an empty page ends the generator.
JiraSearch(w) ==
    /\ pc[w] = "fetch"
    /\ LET g == gen[w]
           issues == SearchIssues(g.source, g.start_at, max_results)
       IN IF issues = <<>>
          THEN /\ gen' = [gen EXCEPT ![w].requests = Append(@, <<g.start_at, max_results>>),
                                     ![w].issues = issues]
               /\ pc' = [pc EXCEPT ![w] = "commit"]
          ELSE /\ gen' = [gen EXCEPT ![w].requests = Append(@, <<g.start_at, max_results>>),
                                     ![w].issues = issues,
                                     ![w].idx = 1,
                                     ![w].total_fetched = @ + Len(issues)]
               /\ pc' = [pc EXCEPT ![w] = "process"]
    /\ UNCHANGED <<call, log, db, pend, unfl, deact, orm, req, stats, processed, clock, started,
                   snap, prev>>

\* Mutant of JiraSearchFails: a page request that raised is sent once more.
JiraSearchFailsRetrying(w) ==
    /\ pc[w] = "fetch"
    /\ gen' = [gen EXCEPT ![w].requests = Append(@, <<gen[w].start_at, max_results>>)]
    /\ IF \E i \in DOMAIN gen[w].requests : gen[w].requests[i][1] = gen[w].start_at
       THEN Raised(w, "adapter")
       ELSE UNCHANGED <<pc, req, prev>>
    /\ UNCHANGED <<call, log, db, pend, unfl, deact, orm, stats, processed, clock, started, snap>>

\* jira_source.py 121-123: the page request raises, and so does the generator.
JiraSearchFails(w) ==
    /\ pc[w] = "fetch"
    /\ gen' = [gen EXCEPT ![w].requests = Append(@, <<gen[w].start_at, max_results>>)]
    /\ Raised(w, "adapter")
    /\ UNCHANGED <<call, log, db, pend, unfl, deact, orm, stats, processed, clock, started, snap>>

\* Mutant of SourceRaises: what the run wrote so far is committed on the way out.
SourceRaisesCommitted(w) ==
    /\ pc[w] = "process"
    /\ gen[w].kind = "generic"
    /\ Raised(w, "adapter")
    /\ db' = Committed(FlushForCommit(w, Session(w)).s)
    /\ SetSession(w, CleanSession)
    /\ UNCHANGED <<call, log, gen, stats, processed, clock, started, snap>>

\* A DataSource other than Jira raises instead of yielding its next record.
SourceRaises(w) ==
    /\ pc[w] = "process"
    /\ gen[w].kind = "generic"
    /\ Raised(w, "adapter")
    /\ UNCHANGED <<call, log, db, pend, unfl, deact, orm, gen, stats, processed, clock, started, snap>>

\* Mutant of Resume: only an empty page ends the generator.
ResumeUntilEmpty(g) ==
    LET last == g.idx = Len(g.issues)
    IN [gen |-> [g EXCEPT !.idx = @ + 1,
                          !.yielded = @ \cup {g.issues[g.idx]},
                          !.start_at = IF last /\ g.kind = "jira"
                                       THEN @ + Len(g.issues) ELSE @],
        pc |-> IF ~last THEN "process"
               ELSE IF g.kind = "jira" THEN "fetch" ELSE "commit"]

\* Mutant of Resume: the next page starts one issue after the end of this one.
ResumeAhead(g) ==
    LET last == g.idx = Len(g.issues)
    IN [gen |-> [g EXCEPT !.idx = @ + 1,
                          !.yielded = @ \cup {g.issues[g.idx]},
                          !.start_at = IF last /\ g.kind = "jira"
                                       THEN @ + Len(g.issues) + 1 ELSE @],
        pc |-> IF ~last THEN "process"
               ELSE IF g.kind = "jira" /\ Len(g.issues) >= max_results
                    THEN "fetch" ELSE "commit"]

\* The generator after it yielded issues[idx] and is asked for the next
\* record (jira_source.py 136-143): the next issue of the page, or after the
\* last one start_at += batch_size and either the next page request or, when
\* the page was short, the end.  pc "commit": the consumer's loop is over.
Resume(g) ==
    LET last == g.idx = Len(g.issues)
    IN [gen |-> [g EXCEPT !.idx = @ + 1,
                          !.yielded = @ \cup {g.issues[g.idx]},
                          !.start_at = IF last /\ g.kind = "jira"
                                       THEN @ + Len(g.issues) ELSE @],
        pc |-> IF ~last THEN "process"
               ELSE IF g.kind = "jira" /\ Len(g.issues) >= max_results
                    THEN "fetch" ELSE "commit"]

\* The CVE ids among raw.cve_ids[i], ... for which the loop of lines 108-116
\* inserts a row, when it inserts n rows from there on.
RECURSIVE CvesMade(_, _, _, _)
CvesMade(s, ids, i, n) ==
    IF n = 0 \/ i > Len(ids) THEN {}
    ELSE IF QueryFirst(s, "cves", ids[i]) # {} THEN CvesMade(s, ids, i + 1, n)
    ELSE {ids[i]} \cup
         CvesMade([Wrote(s) EXCEPT !.pend.cves =
                       @ \cup {[id |-> NewId("cves", ids[i], {}), cve_id |-> ids[i]]}],
                  ids, i + 1, n - 1)

\* What one iteration of the loop did: the record's key, the exception its
\* processing raised ("" if none), the keys of the Project and the CVEs it
\* inserted (each counted in stats when its flush succeeded) and of the
\* Tracker it added, and by how much it raised trackers_created,
\* trackers_updated and the length of errors.
Iteration(w, raw, s, st, r) ==
    [key |-> raw.source_key, exc |-> r.exc,
     projects |-> IF r.stats.projects_created > st.projects_created
                  THEN {raw.project_key} ELSE {},
     cves |-> CvesMade(IF r.stats.projects_created > st.projects_created
                       THEN Wrote(Flush(w, s)) ELSE Flush(w, s),
                       raw.cve_ids, 1, r.stats.cves_created - st.cves_created),
     trackers |-> IF r.stats.trackers_created > st.trackers_created
                  THEN {raw.source_key} ELSE {},
     created |-> r.stats.trackers_created - st.trackers_created,
     updated |-> r.stats.trackers_updated - st.trackers_updated,
     errors |-> Len(r.stats.errors) - Len(st.errors)]

\* One iteration of the for loop of sync_from_source: the generator yields
\* issues[idx] and the loop body runs; then the generator resumes up to its
\* next page request or its end.
ProcessRecord(w) ==
    /\ pc[w] = "process"
    /\ req[w].mode # "adapter"
    /\ LET g == gen[w]
           r == LoopBody(w, Session(w), g.issues[g.idx], stats[w])
       IN /\ SetSession(w, r.s)
          /\ stats' = [stats EXCEPT ![w] = r.stats]
          /\ processed' = [processed EXCEPT ![w] = IF r.exc = "" THEN @ + 1 ELSE @]
          /\ gen' = [gen EXCEPT ![w] = Resume(g).gen]
          /\ pc' = [pc EXCEPT ![w] = Resume(g).pc]
          /\ log' = [log EXCEPT ![w] = Append(@, Iteration(w, g.issues[g.idx], Session(w), stats[w], r))]
    /\ UNCHANGED <<call, db, req, clock, started, snap, prev>>

\* sync_from_source 75-76: db.session.commit() flushes what the last record
\* left in the session.  A flush that fails makes the commit raise; after one
\* that succeeds the COMMIT is yet to be sent.
CommitFlush(w) ==
    /\ pc[w] = "commit"
    /\ req[w].mode # "adapter"
    /\ \E c \in {FlushForCommit(w, Session(w))} :
          /\ SetSession(w, c.s)
          /\ IF c.exc # "" THEN Raised(w, "commit")
             ELSE /\ pc' = [pc EXCEPT ![w] = "flushed"]
                  /\ UNCHANGED <<req, prev>>
    /\ UNCHANGED <<call, log, db, gen, stats, processed, clock, started, snap>>

\* sync_from_source of worker o, or the request that called it, is under way.
InRun(o) ==
    /\ pc[o] \in {"fetch", "process", "commit", "flushed", "watermark", "stamped"}
    /\ req[o].mode \in {"trigger", "direct"}

\* sync_from_source 76-85: the COMMIT of the single commit of the run, then
\* return stats.  The runs of the other workers that are under way have
\* overlapped with this one.
Commit(w) ==
    /\ pc[w] = "flushed"
    /\ db' = Committed(Session(w))
    /\ SetSession(w, CleanSession)
    /\ prev' = [prev EXCEPT !.source = gen[w].source, !.returned = TRUE]
    /\ pc' = [pc EXCEPT ![w] = IF req[w].mode = "trigger" THEN "watermark" ELSE "done"]
    /\ req' = [o \in DOMAIN req |->
                  IF o # w
                  THEN [req[o] EXCEPT !.overlapped = @ \/ InRun(o)]
                  ELSE IF req[w].mode = "trigger"
                       THEN [req[w] EXCEPT !.returned = TRUE]
                       ELSE [req[w] EXCEPT !.result = "returned", !.returned = TRUE]]
    /\ UNCHANGED <<call, log, gen, stats, processed, clock, started, snap>>

\* Mutant of SetLastSync: the watermark is the time the run finished.
SetLastSyncNow(w) ==
    /\ pc[w] = "watermark"
    /\ \E c \in {UtilSetFlush(w, Session(w), "last_sync_datetime", IsoFormat(clock))} :
          /\ SetSession(w, c.s)
          /\ IF c.exc # "" THEN Raised(w, "watermark")
             ELSE /\ pc' = [pc EXCEPT ![w] = "stamped"]
                  /\ UNCHANGED <<req, prev>>
    /\ UNCHANGED <<call, log, db, gen, stats, processed, clock, started, snap>>

\* Mutant of SetLastSync: the watermark is the start time cut to the minute,
\* as the JQL clause has it.
SetLastSyncToMinute(w) ==
    /\ pc[w] = "watermark"
    /\ \E c \in {UtilSetFlush(w, Session(w), "last_sync_datetime",
                              IsoFormat(Strftime(req[w].sync_start_time)))} :
          /\ SetSession(w, c.s)
          /\ IF c.exc # "" THEN Raised(w, "watermark")
             ELSE /\ pc' = [pc EXCEPT ![w] = "stamped"]
                  /\ UNCHANGED <<req, prev>>
    /\ UNCHANGED <<call, log, db, gen, stats, processed, clock, started, snap>>

\* Line 90: Util.set_last_sync(sync_start_time) up to the flush of its
\* commit: the query of util.py 30 (which raises in an inactive session), the
\* assignment or add of 31-35 and the UPDATE or INSERT the commit of 36
\* sends.  An exception is caught by the route (lines 102-104).
SetLastSync(w) ==
    /\ pc[w] = "watermark"
    /\ \E c \in {UtilSetFlush(w, Session(w), "last_sync_datetime",
                              IsoFormat(req[w].sync_start_time))} :
          /\ SetSession(w, c.s)
          /\ IF c.exc # "" THEN Raised(w, "watermark")
             ELSE /\ pc' = [pc EXCEPT ![w] = "stamped"]
                  /\ UNCHANGED <<req, prev>>
    /\ UNCHANGED <<call, log, db, gen, stats, processed, clock, started, snap>>

\* The COMMIT of set_last_sync (util.py 36), then lines 92-100 of the route:
\* the trigger completed.
SetLastSyncCommit(w) ==
    /\ pc[w] = "stamped"
    /\ db' = Committed(Session(w))
    /\ SetSession(w, CleanSession)
    /\ pc' = [pc EXCEPT ![w] = "done"]
    /\ req' = [req EXCEPT ![w].result = "success"]
    /\ UNCHANGED <<call, log, gen, stats, processed, clock, started, snap, prev>>

\* A caller other than the sync service calls the Jira adapter's
\* fetch_trackers(project_keys, since).  The function holds a yield, so the
\* call runs none of its body: it returns a generator object.
FetchTrackers(w, all, project_keys, source) ==
    /\ pc[w] = "idle"
    /\ started < MaxTriggers
    /\ source \in (IF project_keys = <<>> THEN all ELSE JiraSources(all, project_keys))
    /\ started' = started + 1
    /\ pc' = [pc EXCEPT ![w] = "generator"]
    /\ req' = [req EXCEPT ![w] = [IdleReq EXCEPT !.mode = "adapter",
                                                 !.project_keys = project_keys]]
    /\ gen' = [gen EXCEPT ![w] = [IdleGen EXCEPT !.kind = "jira", !.source = source]]
    /\ stats' = [stats EXCEPT ![w] = NewStats]
    /\ processed' = [processed EXCEPT ![w] = 0]
    /\ snap' = [snap EXCEPT ![w] = db]
    /\ UNCHANGED <<call, log, db, pend, unfl, deact, orm, clock, prev>>

\* The caller asks the generator for its first record: the body starts
\* (jira_source.py 88-110), raises ValueError on an empty project_keys list,
\* otherwise builds the JQL and reaches its first page request.
GeneratorStart(w) ==
    /\ pc[w] = "generator"
    /\ IF req[w].project_keys = <<>>
       THEN /\ pc' = [pc EXCEPT ![w] = "done"]
            /\ req' = [req EXCEPT ![w].result = "generator_raised",
                                  ![w].error = "ValueError"]
       ELSE /\ pc' = [pc EXCEPT ![w] = "fetch"]
            /\ req' = req
    /\ UNCHANGED <<call, log, db, pend, unfl, deact, orm, gen, stats, processed, clock, started,
                   snap, prev>>

\* The caller takes the record the generator yields (processed counts the
\* records it received) and asks for the next one.
TakeRecord(w) ==
    /\ pc[w] = "process"
    /\ req[w].mode = "adapter"
    /\ processed' = [processed EXCEPT ![w] = @ + 1]
    /\ gen' = [gen EXCEPT ![w] = Resume(gen[w]).gen]
    /\ pc' = [pc EXCEPT ![w] = Resume(gen[w]).pc]
    /\ UNCHANGED <<call, log, db, pend, unfl, deact, orm, req, stats, clock, started, snap, prev>>

\* The generator returned: the caller's iteration ends.
Exhausted(w) ==
    /\ pc[w] = "commit"
    /\ req[w].mode = "adapter"
    /\ pc' = [pc EXCEPT ![w] = "done"]
    /\ req' = [req EXCEPT ![w].result = "exhausted"]
    /\ UNCHANGED <<call, log, db, pend, unfl, deact, orm, gen, stats, processed, clock, started,
                   snap, prev>>

\* The request or call is over: its locals are gone and its session is removed.
Finish(w) ==
    /\ pc[w] = "done"
    /\ pc' = [pc EXCEPT ![w] = "idle"]
    /\ SetSession(w, CleanSession)
    /\ req' = [req EXCEPT ![w] = IdleReq]
    /\ gen' = [gen EXCEPT ![w] = IdleGen]
    /\ stats' = [stats EXCEPT ![w] = NewStats]
    /\ processed' = [processed EXCEPT ![w] = 0]
    /\ snap' = [snap EXCEPT ![w] = EmptyDb]
    /\ log' = [log EXCEPT ![w] = <<>>]
    /\ prev' = [prev EXCEPT !.aborted = HeldRows(CleanSession)]
    /\ UNCHANGED <<call, db, clock, started>>

\* sync_from_source is over and its caller goes on in the same application
\* context (a script or a test inside `with app.app_context()`): nothing
\* removes or rolls back the session.
ReturnToCaller(w) ==
    /\ pc[w] = "done"
    /\ req[w].mode = "direct"
    /\ pc' = [pc EXCEPT ![w] = "idle"]
    /\ req' = [req EXCEPT ![w] = IdleReq]
    /\ gen' = [gen EXCEPT ![w] = IdleGen]
    /\ stats' = [stats EXCEPT ![w] = NewStats]
    /\ processed' = [processed EXCEPT ![w] = 0]
    /\ snap' = [snap EXCEPT ![w] = EmptyDb]
    /\ log' = [log EXCEPT ![w] = <<>>]
    /\ prev' = [prev EXCEPT !.aborted = IF req[w].error = "adapter"
                                        THEN HeldRows(Session(w)) ELSE @]
    /\ UNCHANGED <<call, db, pend, unfl, deact, orm, clock, started>>

\* The datetimes a caller hands to set_last_sync.
SetTimes == 0..1

\* Util.set_last_sync(dt) called by a caller of its own, in the session it
\* holds, up to the flush of its commit: the query of util.py 30 autoflushes
\* and raises in an inactive session, before anything is added; otherwise the
\* row is updated or added and db.session.commit() flushes the whole session.
CallSetLastSync(w, dt) ==
    /\ pc[w] = "idle"
    /\ Len(call.dts) < MaxSets
    /\ \E c \in {UtilSetFlush(w, Session(w), "last_sync_datetime", IsoFormat(dt))} :
          /\ SetSession(w, c.s)
          /\ pc' = [pc EXCEPT ![w] = IF c.exc # "" THEN "idle" ELSE "set"]
          /\ call' = [call EXCEPT !.fn = "set_last_sync", !.returned = FALSE, !.dt = dt]
    /\ UNCHANGED <<log, db, req, gen, stats, processed, clock, started, snap, prev>>

\* The COMMIT of that call (util.py 36) commits whatever the session's
\* transaction holds; the call returns.
CallSetLastSyncCommit(w) ==
    /\ pc[w] = "set"
    /\ db' = Committed(Session(w))
    /\ SetSession(w, CleanSession)
    /\ pc' = [pc EXCEPT ![w] = "idle"]
    /\ call' = [call EXCEPT !.returned = TRUE, !.dts = Append(@, call.dt)]
    /\ UNCHANGED <<log, req, gen, stats, processed, clock, started, snap, prev>>

\* Util.get_last_sync() called by a caller of its own: the query autoflushes
\* and raises in a session whose transaction was rolled back.
CallGetLastSync(w) ==
    /\ pc[w] = "idle"
    /\ LET f == IF deact[w] THEN Session(w) ELSE Flush(w, Session(w))
       IN /\ SetSession(w, f)
          /\ call' = IF f.deact
                     THEN [call EXCEPT !.fn = "get_last_sync", !.returned = FALSE]
                     ELSE [call EXCEPT !.fn = "get_last_sync", !.returned = TRUE,
                                       !.value = GetLastSync(f)]
    /\ UNCHANGED <<log, db, pc, req, gen, stats, processed, clock, started, snap, prev>>

\* Time passes.
Tick ==
    /\ clock < MaxClock
    /\ clock' = clock + 1
    /\ UNCHANGED <<call, log, db, pend, unfl, deact, orm, pc, req, gen, stats, processed, started,
                   snap, prev>>

DirectKeys == {<<>>, <<"P1", "P2">>}

Step(w, all) ==
    \/ \E config \in Configs : TriggerStart(w, config)
    \/ Reconcile(w)
    \/ \E teams_config \in Configs : ReconcilerCommit(w, teams_config)
    \/ \E jira_configured \in BOOLEAN : CheckKeys(w, jira_configured)
    \/ ConnectFails(w)
    \/ \E source \in all : Connect(w, all, source)
    \/ \E keys \in DirectKeys, source \in all : DirectCall(w, keys, source)
    \/ JiraSearch(w)
    \/ JiraSearchFails(w)
    \/ SourceRaises(w)
    \/ ProcessRecord(w)
    \/ CommitFlush(w)
    \/ Commit(w)
    \/ SetLastSync(w)
    \/ SetLastSyncCommit(w)
    \/ Finish(w)

AdapterKeys == {<<>>, <<"P1">>, <<"P1", "P2">>}

\* The Jira adapter used on its own.
AdapterStep(w, all) ==
    \/ \E keys \in AdapterKeys, source \in all : FetchTrackers(w, all, keys, source)
    \/ GeneratorStart(w)
    \/ TakeRecord(w)
    \/ Exhausted(w)

\* One worker: requests and calls follow one another.
Next == Step(1, SmallSources) \/ AdapterStep(1, SmallSources) \/ Tick

Spec == Init /\ [][Next]_vars

\* The functions and properties used on their own, on inputs of every kind.
StatusTexts ==
    {NullText} \cup UNION {Spellings(word) : word \in
        closed_statuses \cup {<<>>, <<"o", "p", "e", "n">>,
                              <<"c", "a", "n", "c", "e", "l", "e", "d">>,
                              <<"d", "o", "n", "e", " ">>}}

InitCalls ==
    /\ InitProgram
    /\ call \in {[IdleCall EXCEPT !.fn = "extract", !.summary = t] : t \in Texts(MaxFragments)}
          \cup {[IdleCall EXCEPT !.fn = "is_open", !.status = st, !.resolution = r,
                                 !.resolved_date = d] :
                    st \in StatusTexts, r \in {NULL, "Done"}, d \in {NoTime, 0}}

CallExtractCveIds ==
    /\ call.fn = "extract" /\ ~call.returned
    /\ \E ids \in ExtractCveIds(call.summary) :
          call' = [call EXCEPT !.cve_ids = ids, !.returned = TRUE]
    /\ UNCHANGED <<log, db, pend, unfl, deact, orm, pc, req, gen, stats, processed, clock,
                   started, snap, prev>>

ReadIsOpen ==
    /\ call.fn = "is_open" /\ ~call.returned
    /\ call' = [call EXCEPT !.is_open = IsOpen([status |-> call.status,
                                                 resolution |-> call.resolution,
                                                 resolved_date |-> call.resolved_date]),
                            !.returned = TRUE]
    /\ UNCHANGED <<log, db, pend, unfl, deact, orm, pc, req, gen, stats, processed, clock,
                   started, snap, prev>>

NextCalls == CallExtractCveIds \/ ReadIsOpen

SpecCalls == InitCalls /\ [][NextCalls]_vars

\* Two workers, while time passes: nothing in the application keeps two
\* requests or calls from running at once against the same database.
ConcSources == {<<RA>>, <<RD>>, <<RC, RA>>, <<RA, RB>>}

NextConc ==
    \/ \E w \in AllWorkers :
          \/ TriggerStart(w, CfgOne)
          \/ Reconcile(w)
          \/ \E teams_config \in {CfgNone, CfgOne} : ReconcilerCommit(w, teams_config)
          \/ Look(w)
          \/ \E jira_configured \in BOOLEAN : CheckKeys(w, jira_configured)
          \/ ConnectFails(w)
          \/ \E source \in ConcSources : Connect(w, ConcSources, source)
          \/ \E keys \in DirectKeys, source \in ConcSources : DirectCall(w, keys, source)
          \/ JiraSearch(w)
          \/ JiraSearchFails(w)
          \/ SourceRaises(w)
          \/ ProcessRecord(w)
          \/ CommitFlush(w)
          \/ Commit(w)
          \/ SetLastSync(w)
          \/ SetLastSyncCommit(w)
          \/ Finish(w)
    \/ Tick

SpecConc == Init /\ [][NextConc]_vars

\* One worker that calls sync_from_source and the watermark accessors on its
\* own and stays in one application context between the calls.
HeldSources == {<<RA>>, <<RC, RA>>, <<RA, RB>>, <<RD, RE>>}

NextHeld ==
    \/ \E keys \in DirectKeys, source \in HeldSources : DirectCall(1, keys, source)
    \/ SourceRaises(1)
    \/ ProcessRecord(1)
    \/ CommitFlush(1)
    \/ Commit(1)
    \/ ReturnToCaller(1)
    \/ Finish(1)
    \/ \E dt \in SetTimes : CallSetLastSync(1, dt)
    \/ CallSetLastSyncCommit(1)
    \/ CallGetLastSync(1)
    \/ Tick

SpecHeld == Init /\ [][NextHeld]_vars

\* Two workers that serve POST /sync while time passes: the runs of two
\* triggers can overlap, and the searches of the two can return the same
\* issue in two states (RA, and RB after an update of the issue).
OverlapSources == {<<>>, <<RA>>, <<RB>>}

NextOverlap ==
    \/ \E w \in AllWorkers :
          \/ \E config \in {CfgNone, CfgOne} : TriggerStart(w, config)
          \/ Reconcile(w)
          \/ \E teams_config \in {CfgNone, CfgOne} : ReconcilerCommit(w, teams_config)
          \/ Look(w)
          \/ \E jira_configured \in BOOLEAN : CheckKeys(w, jira_configured)
          \/ ConnectFails(w)
          \/ \E source \in OverlapSources : Connect(w, OverlapSources, source)
          \/ JiraSearch(w)
          \/ JiraSearchFails(w)
          \/ ProcessRecord(w)
          \/ CommitFlush(w)
          \/ Commit(w)
          \/ SetLastSync(w)
          \/ SetLastSyncCommit(w)
          \/ Finish(w)
    \/ Tick

SpecOverlap == Init /\ [][NextOverlap]_vars

\* The remote result set changes between two page requests of a run: the
\* issue at position i leaves it (it no longer matches the JQL), or an issue
\* that matches now enters it at position i.  The issues behind a leaving one
\* move to a lower offset.
RH == [RD EXCEPT !.source_key = <<"T2", 0>>, !.updated_date = 0]

Without(q, i) == SubSeq(q, 1, i - 1) \o SubSeq(q, i + 1, Len(q))
With(q, i, x) == SubSeq(q, 1, i - 1) \o <<x>> \o SubSeq(q, i, Len(q))

IssueLeaves(w, i) ==
    /\ pc[w] = "fetch" /\ gen[w].requests # <<>>
    /\ gen[w].shifts < MaxShifts
    /\ i \in DOMAIN gen[w].source
    /\ gen' = [gen EXCEPT ![w].source = Without(@, i),
                          ![w].shifts = @ + 1,
                          ![w].unstable = @ \cup {gen[w].source[i]},
                          ![w].lowered = @ \cup {gen[w].source[j] :
                                                    j \in (i + 1)..Len(gen[w].source)}]
    /\ UNCHANGED <<call, log, db, pend, unfl, deact, orm, pc, req, stats, processed, clock,
                   started, snap, prev>>

IssueEnters(w, i) ==
    /\ pc[w] = "fetch" /\ gen[w].requests # <<>>
    /\ gen[w].shifts < MaxShifts
    /\ i \in 1..(Len(gen[w].source) + 1)
    /\ RH \notin Range(gen[w].source)
    /\ gen' = [gen EXCEPT ![w].source = With(@, i, RH),
                          ![w].shifts = @ + 1,
                          ![w].unstable = @ \cup {RH}]
    /\ UNCHANGED <<call, log, db, pend, unfl, deact, orm, pc, req, stats, processed, clock,
                   started, snap, prev>>

\* The Jira adapter used on its own against a result set that changes while
\* the generator runs.
ShiftSources == {Cycle(<<RD>>, max_results), Cycle(<<RD>>, max_results + 1)}

NextShift ==
    \/ \E keys \in AdapterKeys, source \in ShiftSources :
          FetchTrackers(1, ShiftSources, keys, source)
    \/ GeneratorStart(1)
    \/ JiraSearch(1)
    \/ JiraSearchFails(1)
    \/ TakeRecord(1)
    \/ Exhausted(1)
    \/ \E i \in {1, Len(gen[1].source)} : IssueLeaves(1, i)
    \/ \E i \in {1, Len(gen[1].source) + 1} : IssueEnters(1, i)

SpecShift == Init /\ [][NextShift]_vars

\* One worker that serves POST /sync, or uses the Jira adapter on its own,
\* against result sets of a page and more.
NextPaged ==
    \/ \E config \in {CfgOne, CfgTwo} : TriggerStart(1, config)
    \/ Reconcile(1)
    \/ \E teams_config \in {CfgOne, CfgTwo} : ReconcilerCommit(1, teams_config)
    \/ \E jira_configured \in BOOLEAN : CheckKeys(1, jira_configured)
    \/ ConnectFails(1)
    \/ \E source \in PagedSources : Connect(1, PagedSources, source)
    \/ JiraSearch(1)
    \/ JiraSearchFails(1)
    \/ ProcessRecord(1)
    \/ CommitFlush(1)
    \/ Commit(1)
    \/ SetLastSync(1)
    \/ SetLastSyncCommit(1)
    \/ Finish(1)
    \/ AdapterStep(1, PagedSources)

SpecPaged == Init /\ [][NextPaged]_vars

\* ---------------------------------------------------------- the claims
Watermark == GetLastSync(CleanSession)

ProjectKeysOf(d) == {r.key : r \in d.projects}
CveIdsOf(d) == {r.cve_id : r \in d.cves}
TrackerKeysOf(d) == {r.jira_key : r \in d.trackers}

\* sync_from_source of worker w is over and the adapter did not raise.
RunOver(w) ==
    \/ pc[w] \in {"watermark", "stamped"}
    \/ /\ pc[w] = "done"
       /\ req[w].result \in {"returned", "raised", "success", "sync_failed"}
       /\ req[w].error # "adapter"

\* C1: when the adapter raises while its records are consumed, the error
\* reaches the caller and the committed store is what it was when the run began.
C1_AdapterErrorCommitsNothing ==
    \A w \in AllWorkers :
        (pc[w] = "done" /\ req[w].error = "adapter") =>
            /\ db = snap[w]
            /\ ~req[w].returned
            /\ req[w].result \in {"sync_failed", "raised"}

C1_Witness ==
    \E w \in AllWorkers :
        /\ pc[w] = "done" /\ req[w].error = "adapter"
        /\ processed[w] >= 1
        /\ pend[w].projects # {} /\ pend[w].cves # {} /\ unfl[w] # {}

\* C2: a request whose run raised, whose connection test failed or whose
\* config names no project leaves the watermark as it was when it began.
C2_WatermarkOnlyAfterCommit ==
    \A w \in AllWorkers :
        (/\ pc[w] = "done"
         /\ req[w].mode = "trigger"
         /\ req[w].result \in {"sync_failed", "connection_failed", "no_projects"}) =>
            Watermark = req[w].wm_before

C2_Witness ==
    \E w \in AllWorkers :
        /\ pc[w] = "done" /\ req[w].mode = "trigger"
        /\ req[w].result = "sync_failed"
        /\ Watermark # NoTime
        /\ req[w].sync_start_time > Watermark

\* C3: a run that returns after a run with the same adapter output returned
\* creates nothing, counts every processed record as updated and leaves the
\* Project, CVE and Tracker key sets as they were.
C3_SecondRunIdempotent ==
    \A w \in AllWorkers :
        (pc[w] \in {"watermark", "stamped", "done"} /\ req[w].returned /\ req[w].repeat) =>
            /\ stats[w].trackers_created = 0
            /\ stats[w].cves_created = 0
            /\ stats[w].projects_created = 0
            /\ stats[w].trackers_updated = processed[w]
            /\ ProjectKeysOf(db) = ProjectKeysOf(snap[w])
            /\ CveIdsOf(db) = CveIdsOf(snap[w])
            /\ TrackerKeysOf(db) = TrackerKeysOf(snap[w])

C3_Witness ==
    \E w \in AllWorkers :
        /\ pc[w] = "done" /\ req[w].returned /\ req[w].repeat
        /\ stats[w].trackers_updated = 2

\* C4: sync_from_source with an empty project_keys list ends at once with
\* ValueError; the store, the session and the generator are untouched.
C4_EmptyKeysFailFast ==
    [][\A w \in AllWorkers :
          (/\ pc[w] = "idle" /\ pc'[w] # "idle"
           /\ req'[w].mode = "direct" /\ req'[w].project_keys = <<>>) =>
              /\ pc'[w] = "done" /\ req'[w].result = "ValueError"
              /\ db' = db /\ pend' = pend /\ unfl' = unfl /\ deact' = deact /\ orm' = orm
              /\ gen' = gen /\ stats' = stats]_vars

C4_Witness ==
    \E w \in AllWorkers :
        /\ pc[w] = "done" /\ req[w].result = "ValueError"
        /\ db.trackers # {} /\ Watermark # NoTime

\* C5: a run in which a record raised still commits and returns its stats,
\* every record is either processed or listed in errors under its key.
C5_RecordErrorNeverAborts ==
    \A w \in AllWorkers :
        (RunOver(w) /\ Len(stats[w].errors) > 0) =>
            /\ req[w].returned
            /\ processed[w] + Len(stats[w].errors) = Len(gen[w].source)

\* The run of worker w had one record, with a project key and k distinct CVE
\* ids none of which the store knew when the run began.
FreshRecordRun(w) ==
    /\ RunOver(w)
    /\ Len(gen[w].source) = 1
    /\ LET raw == gen[w].source[1]
       IN /\ raw.project_key # NULL
          /\ raw.project_key \notin ProjectKeysOf(snap[w])
          /\ raw.cve_ids # NotIterable
          /\ \A i, j \in DOMAIN raw.cve_ids :
                 /\ raw.cve_ids[i] \notin CveIdsOf(snap[w]) \cup {NULL}
                 /\ (i # j => raw.cve_ids[i] # raw.cve_ids[j])

\* What such a run leaves: the stub Project, the k CVEs, and `made` new
\* Trackers; the record's Tracker is linked to the Project and the last CVE.
FreshRecordOutcome(w, made) ==
    LET raw == gen[w].source[1]
        k == Len(raw.cve_ids)
        ps == {p \in db.projects : p.key = raw.project_key}
        ts == {t \in db.trackers : t.jira_key = raw.source_key}
    IN /\ req[w].returned
       /\ stats[w] = [trackers_created |-> made, trackers_updated |-> 1 - made,
                      cves_created |-> k, projects_created |-> 1, errors |-> <<>>]
       /\ Cardinality(db.projects) = Cardinality(snap[w].projects) + 1
       /\ Cardinality(ps) = 1
       /\ \A p \in ps : p.name = raw.project_key /\ p.team_id = NullId
       /\ Cardinality(db.cves) = Cardinality(snap[w].cves) + k
       /\ CveIdsOf(db) = CveIdsOf(snap[w]) \cup Range(raw.cve_ids)
       /\ Cardinality(db.trackers) = Cardinality(snap[w].trackers) + made
       /\ Cardinality(ts) = 1
       /\ \A t \in ts :
             /\ \E p \in ps : t.project_id = p.id
             /\ IF k = 0 THEN t.cve_id = NullId
                ELSE \E c \in db.cves : c.id = t.cve_id /\ c.cve_id = raw.cve_ids[k]

\* C6: no table of the committed store holds two rows with the same unique
\* key: Tracker.jira_key, CVE.cve_id, Project.key, Team.name.
C6_UniqueKeys ==
    \A t \in Tables : \A r1, r2 \in db[t] : KeyOf(t, r1) = KeyOf(t, r2) => r1 = r2

C6_Witness ==
    \E w \in AllWorkers :
        /\ pc[w] = "done" /\ req[w].returned
        /\ gen[w].source = <<RA, RB>>
        /\ snap[w].trackers # {} /\ snap[w].cves # {}
        /\ db.teams # {} /\ db.projects # {}

\* Rows worker w inserted in its open transaction.
Inserted(w, t) == {r \in pend[w][t] : r.id \notin Ids(db[t])}

\* The keys of table t that are committed or that another session holds in
\* its open transaction.
Taken(w, t) ==
    {KeyOf(t, r) : r \in db[t] \cup UNION {pend[o][t] : o \in AllWorkers \ {w}}}

\* The exception the next step of the run of worker w raises, "" if none:
\* that of the record it processes next, or of the flush of its commit.
StepExc(w) ==
    IF pc[w] = "commit" THEN FlushExc(w, Session(w))
    ELSE ProcessTracker(w, Session(w), gen[w].issues[gen[w].idx], stats[w]).exc

\* The first CVE id of the record that the queries of session s do not find.
FirstMissingCve(s, raw) ==
    LET missing == {i \in DOMAIN raw.cve_ids : QueryFirst(s, "cves", raw.cve_ids[i]) = {}}
    IN IF missing = {} THEN {}
       ELSE {raw.cve_ids[CHOOSE i \in missing : \A j \in missing : i <= j]}

\* Worker w lost a race: the first write statement its run sends next is the
\* INSERT of a Tracker key or CVE id that its queries did not find and that
\* another run has inserted since, committed or not.
LostRace(w) ==
    /\ pc[w] \in {"process", "commit"} /\ req[w].mode # "adapter"
    /\ ~deact[w] /\ ~Holds(pend[w])
    /\ LET s == Session(w)
       IN IF Unflushed(s)
          THEN \E r \in unfl[w] : r.jira_key \in Taken(w, "trackers")
          ELSE /\ pc[w] = "process"
               /\ LET raw == gen[w].issues[gen[w].idx]
                  IN /\ QueryFirst(s, "projects", raw.project_key) # {}
                     /\ raw.cve_ids # NotIterable
                     /\ FirstMissingCve(s, raw) \cap Taken(w, "cves") # {}

\* No two committed rows and no two open transactions hold the same Tracker
\* key or CVE id, and the writer whose flush failed holds nothing.
NoDuplicateKey ==
    /\ \A t \in {"trackers", "cves"} :
          /\ \A r1, r2 \in db[t] : KeyOf(t, r1) = KeyOf(t, r2) => r1 = r2
          /\ \A w1, w2 \in AllWorkers :
                w1 # w2 =>
                    {KeyOf(t, r) : r \in Inserted(w1, t)} \cap
                    {KeyOf(t, r) : r \in Inserted(w2, t)} = {}
    /\ \A w \in AllWorkers : deact[w] => pend[w] = EmptyDb /\ unfl[w] = {}

C7_WitnessLocked ==
    \E w, o \in AllWorkers :
        /\ w # o /\ deact[w]
        /\ Len(log[w]) = 1 /\ log[w][1].exc = "OperationalError"
        /\ gen[w].source[1] = RA
        /\ "P1" \in ProjectKeysOf(snap[w])
        /\ \E r \in Inserted(o, "cves") : r.cve_id = "C1"

\* C8 as stated: whatever the record's source_key, the run creates one Tracker.
C8_FreshRecordCreatesOneTracker ==
    \A w \in AllWorkers : FreshRecordRun(w) => FreshRecordOutcome(w, 1)

\* C8 amended: for a record whose source_key is unknown to the store too, the
\* run creates one stub Project, k CVEs and one Tracker linked to the last CVE,
\* with stats 1 / k / 1.
C8_FreshRecordUnknownTracker ==
    \A w \in AllWorkers :
        (FreshRecordRun(w) /\ gen[w].source[1].source_key \notin TrackerKeysOf(snap[w]))
            => FreshRecordOutcome(w, 1)

C8_Witness ==
    \E w \in AllWorkers :
        /\ FreshRecordRun(w) /\ FreshRecordOutcome(w, 1)
        /\ gen[w].source[1].cve_ids = <<"C1", "C2">>
        /\ snap[w].projects # {}

\* C9: a request whose run returned sets the watermark to the time taken
\* before the run, so every update made since that time is inside the window
\* of a fetch that starts from the new watermark.
C9_WatermarkIsStartTime ==
    \A w \in AllWorkers :
        (pc[w] = "done" /\ req[w].result = "success") =>
            /\ req[w].returned
            /\ Watermark = req[w].sync_start_time
            /\ \A u \in req[w].sync_start_time..clock : InWindow(u, Watermark)

C9_Witness ==
    \E w \in AllWorkers :
        /\ pc[w] = "done" /\ req[w].result = "success"
        /\ processed[w] >= 1
        /\ Strftime(clock) > req[w].sync_start_time

\* C10: every committed Tracker's project_id is the id of a committed Project.
C10_TrackerProjectResolves ==
    \A t \in db.trackers : \E p \in db.projects : p.id = t.project_id

C10_Witness ==
    \E t \in db.trackers : \E p \in db.projects :
        p.id = t.project_id /\ p.team_id = NullId /\ p.name = p.key

\* The index of the last record of the sequence with this source_key.
LastWithKey(source, key) ==
    CHOOSE i \in DOMAIN source :
        /\ source[i].source_key = key
        /\ \A j \in DOMAIN source : source[j].source_key = key => j <= i

\* The Tracker row holds the record's fields and is linked to the record's
\* Project and to the CVE named last in the record (to none if it names none).
TrackerMatches(t, raw, d) ==
    /\ t.status = raw.status /\ t.resolution = raw.resolution
    /\ t.priority = raw.priority /\ t.severity = raw.severity
    /\ t.assignee = raw.assignee /\ t.reporter = raw.reporter
    /\ t.summary = raw.summary
    /\ t.created_date = raw.created_date /\ t.updated_date = raw.updated_date
    /\ t.resolved_date = raw.resolved_date /\ t.due_date = raw.due_date
    /\ t.sla_date = raw.sla_date
    /\ \E p \in d.projects : p.id = t.project_id /\ p.key = raw.project_key
    /\ IF raw.cve_ids = <<>> THEN t.cve_id = NullId
       ELSE \E c \in d.cves : c.id = t.cve_id /\ c.cve_id = raw.cve_ids[Len(raw.cve_ids)]

\* A returned run whose only record is closed and names a Tracker that was
\* open reports 0 created, 1 updated, and the Tracker is no longer open.
ClosingResync(w) ==
    (/\ Len(gen[w].source) = 1
     /\ stats[w].errors = <<>>
     /\ ~IsOpen(gen[w].source[1])
     /\ \E t \in snap[w].trackers : t.jira_key = gen[w].source[1].source_key /\ IsOpen(t))
        => /\ stats[w].trackers_created = 0
           /\ stats[w].trackers_updated = 1
           /\ \A t \in db.trackers : t.jira_key = gen[w].source[1].source_key => ~IsOpen(t)

\* C11 as stated: after a returned run every Tracker whose key occurred in the
\* record sequence holds the fields and links of the last record with that key.
C11_LastRecordWins ==
    \A w \in AllWorkers :
        (pc[w] \in {"watermark", "stamped", "done"} /\ req[w].returned) =>
            /\ \A i \in DOMAIN gen[w].source :
                  \A t \in db.trackers :
                      t.jira_key = gen[w].source[i].source_key =>
                          TrackerMatches(t, gen[w].source[LastWithKey(gen[w].source,
                                                                     t.jira_key)], db)
            /\ ClosingResync(w)

\* C11 amended: after a returned run every key of the record sequence none of
\* whose records raised has one Tracker, which holds the fields and links of
\* the last record with that key, whatever it held before; a closing re-sync
\* of an open Tracker reports 0 created, 1 updated and is_open turns false.
C11_LastProcessedRecordWins ==
    \A w \in AllWorkers :
        (pc[w] \in {"watermark", "stamped", "done"} /\ req[w].returned) =>
            /\ \A i \in DOMAIN gen[w].source :
                  LET key == gen[w].source[i].source_key
                      ts == {t \in db.trackers : t.jira_key = key}
                  IN (\A e \in Range(stats[w].errors) : e[1] # key) =>
                         /\ Cardinality(ts) = 1
                         /\ \A t \in ts :
                               TrackerMatches(t, gen[w].source[LastWithKey(gen[w].source,
                                                                          key)], db)
            /\ ClosingResync(w)

C11_Witness ==
    \E w \in AllWorkers :
        /\ pc[w] = "done" /\ req[w].returned
        /\ gen[w].source = <<RB>>
        /\ \E t \in snap[w].trackers :
              t.jira_key = "T1" /\ IsOpen(t) /\ t.assignee = "ann" /\ t.resolution = NULL
        /\ \E t \in db.trackers :
              t.jira_key = "T1" /\ ~IsOpen(t) /\ t.assignee = NULL /\ t.resolution = "Done"
        /\ stats[w].trackers_created = 0 /\ stats[w].trackers_updated = 1

\* Worker w is inside sync_from_source, or the call is over.
RunEntered(w) ==
    \/ pc[w] \in {"fetch", "process", "commit", "flushed", "watermark", "stamped"}
    \/ pc[w] = "done" /\ req[w].result \in {"returned", "raised", "success", "sync_failed"}

\* C12: from the entry of sync_from_source on, the Team rows, committed and
\* in the run's transaction, are those of the entry, and every Project that was
\* not there at the entry has no team.
C12_SyncLeavesTeams ==
    \A w \in AllWorkers :
        RunEntered(w) =>
            /\ db.teams = snap[w].teams
            /\ View(Session(w)).teams = snap[w].teams
            /\ \A p \in db.projects \cup pend[w].projects :
                  p.id \notin Ids(snap[w].projects) => p.team_id = NullId

C12_Witness ==
    \E w \in AllWorkers :
        /\ pc[w] = "done" /\ req[w].returned
        /\ stats[w].projects_created >= 1
        /\ \E t \in db.teams : t.description # NULL
        /\ \E p \in db.projects : p.team_id # NullId
        /\ \E p \in db.projects : p.id \notin Ids(snap[w].projects)

TeamNamesOf(d) == {r.name : r \in d.teams}

\* C13: no step removes a Tracker key, a CVE id, a Project key or a Team name
\* from the committed store, nor a row from one of the four tables.
C13_KeysOnlyGrow ==
    [][/\ TrackerKeysOf(db) \subseteq TrackerKeysOf(db')
       /\ CveIdsOf(db) \subseteq CveIdsOf(db')
       /\ ProjectKeysOf(db) \subseteq ProjectKeysOf(db')
       /\ TeamNamesOf(db) \subseteq TeamNamesOf(db')
       /\ \A t \in Tables : Ids(db[t]) \subseteq Ids(db'[t])]_vars

C13_Witness ==
    /\ started >= 2
    /\ Cardinality(db.trackers) = 2 /\ Cardinality(db.cves) = 2
    /\ Cardinality(db.projects) = 2 /\ Cardinality(db.teams) = 2
    /\ \E w \in AllWorkers : pc[w] = "done" /\ req[w].returned /\ snap[w].teams # {}

\* The records the generator of worker w has yielded so far: those the
\* consumer processed and those whose processing raised.
Yielded(w) == processed[w] + Len(stats[w].errors)

\* The generator of worker w returned (it did not raise).
GeneratorOver(w) ==
    /\ gen[w].kind = "jira"
    /\ \/ pc[w] \in {"commit", "flushed", "watermark", "stamped"}
       \/ /\ pc[w] = "done"
          /\ \/ req[w].result \in {"returned", "success", "exhausted"}
             \/ req[w].error \in {"commit", "watermark"}

\* C14: every page request asks for max_results = 100 issues from the offset
\* that equals the number of records yielded so far; the k-th record yielded is
\* the k-th record of the result set; when the generator returns it has
\* yielded all N records.
C14_PagesInOffsetOrder ==
    [][\A w \in AllWorkers :
          gen[w].kind = "jira" =>
              /\ Len(gen'[w].requests) > Len(gen[w].requests) =>
                     /\ Len(gen'[w].requests) = Len(gen[w].requests) + 1
                     /\ gen'[w].requests[Len(gen'[w].requests)] = <<Yielded(w), 100>>
              /\ Yielded(w)' > Yielded(w) =>
                     /\ Yielded(w)' = Yielded(w) + 1
                     /\ gen[w].issues[gen[w].idx] = gen[w].source[Yielded(w) + 1]
              /\ (~GeneratorOver(w) /\ GeneratorOver(w)') =>
                     Yielded(w)' = Len(gen[w].source)]_vars

C14_Witness ==
    \E w \in AllWorkers :
        /\ GeneratorOver(w) /\ pc[w] = "done"
        /\ Len(gen[w].source) = max_results + 1
        /\ Yielded(w) = max_results + 1
        /\ gen[w].requests = << <<0, 100>>, <<100, 100>> >>

\* C15: the generator sends at most floor(N/100) + 1 page requests, each
\* after full pages only; when it returns it has sent exactly that many, the
\* last page was empty or short, and nothing is requested or yielded after.
C15_PageRequestsBounded ==
    /\ [](\A w \in AllWorkers :
            gen[w].kind = "jira" =>
                LET N == Len(gen[w].source)
                    n == Len(gen[w].requests)
                IN /\ n <= (N \div max_results) + 1
                   /\ Yielded(w) <= N
                   /\ pc[w] = "fetch" =>
                          gen[w].start_at = max_results * n /\ gen[w].start_at <= N
                   /\ GeneratorOver(w) =>
                          /\ n = (N \div max_results) + 1
                          /\ Len(gen[w].issues) < max_results)
    /\ [][\A w \in AllWorkers :
              (GeneratorOver(w) /\ pc'[w] # "idle") =>
                  gen'[w] = gen[w] /\ Yielded(w)' = Yielded(w)]_vars

C15_Witness ==
    \E w \in AllWorkers :
        /\ GeneratorOver(w) /\ pc[w] = "done"
        /\ Len(gen[w].source) = 2 * max_results
        /\ Len(gen[w].requests) = 3
        /\ gen[w].issues = <<>>

\* C16 as stated: a call of the adapter's fetch_trackers with an empty
\* project_keys list fails at the call, with no request sent.
C16_EmptyKeysCallFails ==
    [][\A w \in AllWorkers :
          (/\ pc[w] = "idle" /\ pc'[w] # "idle"
           /\ req'[w].mode = "adapter" /\ req'[w].project_keys = <<>>) =>
              /\ pc'[w] = "done"
              /\ req'[w].error = "ValueError"
              /\ gen'[w].requests = <<>>]_vars

\* C17 as stated: the list _extract_cve_ids returns is upper-cased and holds
\* no element twice.
C17_ExtractedIdsDistinct ==
    (call.fn = "extract" /\ call.returned) =>
        /\ \A i \in DOMAIN call.cve_ids : call.cve_ids[i] = Upper(call.cve_ids[i])
        /\ \A i, j \in DOMAIN call.cve_ids : i # j => call.cve_ids[i] # call.cve_ids[j]

\* C19: is_open is true exactly when the status is None or empty or its
\* lower-case form is none of done, closed, resolved, cancelled, whatever the
\* resolution and the resolved date.
C19_IsOpenFromStatus ==
    (call.fn = "is_open" /\ call.returned) =>
        (call.is_open <=>
            \/ call.status = NullText
            \/ call.status = <<>>
            \/ Lower(call.status) \notin {<<"d", "o", "n", "e">>,
                                           <<"c", "l", "o", "s", "e", "d">>,
                                           <<"r", "e", "s", "o", "l", "v", "e", "d">>,
                                           <<"c", "a", "n", "c", "e", "l", "l", "e", "d">>})

C19_Witness ==
    /\ call.fn = "is_open" /\ call.returned
    /\ call.status = <<"R", "e", "S", "o", "L", "v", "E", "d">>
    /\ call.resolution = NULL /\ call.resolved_date = NoTime
    /\ ~call.is_open

\* C18: a reconciler run with the config of the run just before it, on the
\* Teams, Projects and dependency edges that run left, changes none of them
\* and reports teams_created = 0 and projects_created = 0.
C18_ReconcilerIdempotent ==
    [][\A w \in AllWorkers :
          (pc[w] = "reconciled" /\ pc'[w] = "keys" /\ req'[w].config_repeat) =>
              /\ Reconciled(db') = Reconciled(db)
              /\ req'[w].config_stats.teams_created = 0
              /\ req'[w].config_stats.projects_created = 0]_vars

C18_Witness ==
    \E w \in AllWorkers :
        /\ pc[w] = "keys" /\ req[w].config_repeat
        /\ prev.config = CfgTwo
        /\ req[w].config_stats.teams_updated = 2
        /\ Cardinality(db.deps) = 2
        /\ \E t \in db.teams : t.name = "TA" /\ t.description = "d2"
        /\ \E p \in db.projects : p.key = "P1" /\ \E t \in db.teams : t.id = p.team_id /\ t.name = "TB"

\* The Teams a CVE affects by the rows of store d: the teams of the projects
\* of the Trackers linked to it.
TeamsLinkedTo(d, cve) ==
    {m \in d.teams : \E t \in d.trackers, p \in d.projects :
        t.cve_id = cve.id /\ t.project_id = p.id /\ p.team_id = m.id}

\* C20: in every store state and for every CVE, each list affected_teams can
\* return holds exactly the teams of the projects of the Trackers now linked to
\* the CVE, none twice; a CVE row holds no such list, and no step writes a CVE
\* row once it is committed.
C20_AffectedTeamsDerived ==
    /\ [](\A cve \in db.cves :
            /\ DOMAIN cve = {"id", "cve_id"}
            /\ \A teams \in AffectedTeams(db, cve) :
                  /\ Range(teams) = TeamsLinkedTo(db, cve)
                  /\ \A i, j \in DOMAIN teams : i # j => teams[i] # teams[j])
    /\ [][\A cve \in db.cves : cve \in db'.cves]_vars

\* POST /sync moved a project to another Team before its run: a CVE with two
\* linked Trackers, whose projects had one Team, now affects two Teams, and
\* its row is the one it was.
C20_Witness ==
    \E w \in AllWorkers :
        /\ pc[w] = "keys" /\ prev.reconciled
        /\ \E cve \in db.cves :
              /\ Cardinality({t \in db.trackers : t.cve_id = cve.id}) = 2
              /\ \A teams \in AffectedTeams(db, cve) : Len(teams) = 2

\* A CVE has two linked Trackers whose projects belong to the same Team: the
\* Team is listed once.
C20_WitnessShared ==
    \E cve \in db.cves : \E t1, t2 \in db.trackers :
        /\ t1 # t2 /\ t1.cve_id = cve.id /\ t2.cve_id = cve.id
        /\ \A teams \in AffectedTeams(db, cve) : Len(teams) = 1
        /\ \A p \in ProjectOf(db, t1) \cup ProjectOf(db, t2) : TeamOf(db, p) # {}

\* A CVE has a linked Tracker whose project has no Team and another whose
\* project has one: only the latter's Team is listed.
C20_WitnessSkipped ==
    \E cve \in db.cves : \E t1, t2 \in db.trackers :
        /\ t1.cve_id = cve.id /\ t2.cve_id = cve.id
        /\ \E p \in ProjectOf(db, t1) : TeamOf(db, p) = {}
        /\ \E p \in ProjectOf(db, t2) : TeamOf(db, p) # {}
        /\ \A teams \in AffectedTeams(db, cve) : Len(teams) = 1

\* The rows of the watermark key.
LastSyncRows == {u \in db.util : u.key = "last_sync_datetime"}

\* C21: before any set_last_sync call there is no watermark row; after set
\* calls there is exactly one row for the key last_sync_datetime, holding the
\* ISO text of the last datetime set; and a get_last_sync call that returns
\* gives the last datetime set, None when there was none.
C21_WatermarkRoundTrip ==
    /\ call.dts = <<>> => LastSyncRows = {}
    /\ call.dts # <<>> =>
          LastSyncRows = {[key |-> "last_sync_datetime",
                           value |-> IsoFormat(call.dts[Len(call.dts)])]}
    /\ (call.fn = "get_last_sync" /\ call.returned) =>
          call.value = IF call.dts = <<>> THEN NoTime ELSE call.dts[Len(call.dts)]

\* get_last_sync returned the datetime of the third set call, which is not
\* the one the second set call stored.
C21_Witness ==
    /\ call.fn = "get_last_sync" /\ call.returned
    /\ Len(call.dts) = 3
    /\ call.dts[3] # call.dts[2]
    /\ call.value = call.dts[3]

\* The search call of worker w's generator raised.
PageRequestFailed(w) ==
    pc[w] = "done" /\ req[w].error = "adapter" /\ gen[w].kind = "jira"

\* C22: no offset is requested twice; when a page request raised, it is the
\* last request of the generator, every record of the pages fetched before it
\* was yielded and went through the consumer's loop, and from then on the
\* generator sends no request and yields no record.
C22_FailedPageNotRetried ==
    /\ [](\A w \in AllWorkers :
            /\ \A i, j \in DOMAIN gen[w].requests :
                  i < j => gen[w].requests[i][1] < gen[w].requests[j][1]
            /\ PageRequestFailed(w) =>
                  /\ gen[w].requests[Len(gen[w].requests)] = <<gen[w].start_at, max_results>>
                  /\ gen[w].start_at = gen[w].total_fetched
                  /\ Yielded(w) = gen[w].total_fetched)
    /\ [][\A w \in AllWorkers :
            (PageRequestFailed(w) /\ pc'[w] = "done") =>
                /\ gen'[w] = gen[w]
                /\ processed'[w] = processed[w] /\ stats'[w] = stats[w]]_vars

\* The second page request of a trigger raised after the hundred records of
\* the first page were processed.
C22_Witness ==
    \E w \in AllWorkers :
        /\ PageRequestFailed(w) /\ req[w].mode = "trigger"
        /\ gen[w].requests = << <<0, max_results>>, <<max_results, max_results>> >>
        /\ processed[w] = max_results

\* sync_from_source of worker w returned its stats.
RunReturned(w) == pc[w] \in {"watermark", "stamped", "done"} /\ req[w].returned

\* The number of keys the iterations i, i+1, ... of a log added to a table.
RECURSIVE Added(_, _, _)
Added(lg, t, i) ==
    IF i > Len(lg) THEN 0 ELSE Cardinality(lg[i][t]) + Added(lg, t, i + 1)

Failed(lg) == {i \in DOMAIN lg : lg[i].exc # ""}

\* C23 as stated: when the run is over, the Projects and CVEs that the
\* processing of a failed record had created before it failed are in the
\* committed store and are counted in projects_created and cves_created with
\* those of the other records; the failed record added no Tracker and is
\* listed in stats.errors.
C23_PartialWritesPersist ==
    \A w \in AllWorkers :
        RunOver(w) =>
            /\ \A i \in Failed(log[w]) :
                  /\ log[w][i].projects \subseteq ProjectKeysOf(db)
                  /\ log[w][i].cves \subseteq CveIdsOf(db)
                  /\ log[w][i].trackers = {}
                  /\ \E j \in DOMAIN stats[w].errors :
                        stats[w].errors[j] = <<log[w][i].key, log[w][i].exc>>
            /\ Len(stats[w].errors) = Cardinality(Failed(log[w]))
            /\ stats[w].projects_created = Added(log[w], "projects", 1)
            /\ stats[w].cves_created = Added(log[w], "cves", 1)

\* C24: a run of the config reconciler does not fail; it leaves the edges
\* that were there, adds the edge of every listed pair whose two Projects
\* exist (a Project paired with itself included) and no other edge; and the
\* Projects after it are those before it and those the teams list, none for a
\* key that only project_dependencies names.
C24_DependencyEdges ==
    [][\A w \in AllWorkers :
          /\ (pc[w] = "reconcile" /\ pc'[w] # "reconcile") => pc'[w] = "reconciled"
          /\ (pc[w] = "reconciled" /\ pc'[w] # "reconciled") =>
              /\ pc'[w] = "keys"
              /\ ProjectKeysOf(db') =
                    ProjectKeysOf(db) \cup Range(ProjectKeys(prev'.config.teams, 1))
              /\ db'.deps =
                    db.deps \cup
                    {[upstream_id |-> u.id, downstream_id |-> dn.id] :
                        <<u, dn>> \in
                            {e \in db'.projects \X db'.projects :
                                \E i \in DOMAIN prev'.config.project_dependencies :
                                    /\ prev'.config.project_dependencies[i][1] = e[2].key
                                    /\ e[1].key \in
                                          Range(prev'.config.project_dependencies[i][2])}}]_vars

\* The reconciler ran on a config that lists an edge twice, a Project paired
\* with itself and a key no team lists: the store holds a self-edge and a
\* cycle of two Projects, three edges in all, and no Project "P9".
C24_Witness ==
    \E w \in AllWorkers : \E p1, p2 \in db.projects :
        /\ pc[w] = "keys" /\ prev.config = CfgOne
        /\ p1.key = "P1" /\ p2.key = "P2"
        /\ db.deps = {[upstream_id |-> p1.id, downstream_id |-> p1.id],
                      [upstream_id |-> p1.id, downstream_id |-> p2.id],
                      [upstream_id |-> p2.id, downstream_id |-> p1.id]}
        /\ "P9" \notin ProjectKeysOf(db)

\* C25: no step commits a Project, CVE or Tracker row that a run aborted by
\* an adapter error left pending in a session that is still in use.
C25_AbortedRowsNeverPersist ==
    [][\A t \in Tables : \A r \in prev.aborted[t] : r \notin db[t] => r \notin db'[t]]_vars

\* The trigger of worker w completed and advanced the watermark.
TriggerCompleted(w) ==
    pc[w] = "done" /\ req[w].mode = "trigger" /\ req[w].result = "success"

\* The committed store d holds, for every record the adapter yielded to the
\* run of worker w, a Tracker with that record's key, fields and links.
Stored(w, d) ==
    \A i \in DOMAIN gen[w].source :
        \E t \in d.trackers :
            /\ t.jira_key = gen[w].source[i].source_key
            /\ TrackerMatches(t, gen[w].source[i], d)

\* C26 as stated: when a trigger completes and advances the watermark, the
\* committed store holds, for every record the adapter yielded to its run, a
\* Tracker with that record's key and field values.
C26_NoYieldedRecordLost ==
    [][\A w \in AllWorkers :
          (pc[w] = "stamped" /\ pc'[w] = "done") => Stored(w, db')]_vars

\* C26 amended: when a trigger completes and advances the watermark, and no
\* other sync run committed between the start of the trigger's run and its
\* completion, the committed store holds, for every record the adapter
\* yielded to its run, a Tracker with that record's key and field values.
C26_StoredUnlessOverlapped ==
    [][\A w \in AllWorkers :
          (pc[w] = "stamped" /\ pc'[w] = "done" /\ ~req[w].overlapped)
              => Stored(w, db')]_vars

\* A trigger completed and advanced the watermark to its start time, and no
\* other run committed meanwhile; its record named a Tracker the store held
\* with other field values, and the store holds the record's values now.
C26_Witness ==
    \E w \in AllWorkers :
        /\ TriggerCompleted(w) /\ ~req[w].overlapped
        /\ Watermark = req[w].sync_start_time /\ Watermark # req[w].wm_before
        /\ stats[w].trackers_updated = 1
        /\ \E t \in snap[w].trackers :
              /\ t.jira_key = gen[w].source[1].source_key
              /\ ~TrackerMatches(t, gen[w].source[1], snap[w])
        /\ Stored(w, db)

\* Two overlapping triggers fetched the same issue, the one that began first
\* in its older state, and the one that began first committed last: both
\* completed, the Tracker holds the older state, and the watermark is the
\* later start time, past the time the issue was updated to its newer state.
C26_NewerStateOverwritten ==
    \E w, o \in AllWorkers :
        /\ w # o /\ TriggerCompleted(w) /\ TriggerCompleted(o)
        /\ req[w].overlapped /\ req[o].overlapped
        /\ gen[w].source = <<RB>> /\ gen[o].source = <<RA>>
        /\ req[o].sync_start_time < req[w].sync_start_time
        /\ Watermark = req[w].sync_start_time
        /\ Stored(o, db) /\ ~Stored(w, db)
        /\ ~InWindow(RB.updated_date, Watermark)

\* C27 as stated: no step moves the persisted watermark to an earlier value
\* (a watermark that was never set is earlier than any).
C27_WatermarkNeverBackward ==
    [][Watermark' >= Watermark]_vars

\* C27 amended: the watermark changes only when a trigger completes, and then
\* it becomes the time the run of that trigger began, which is never earlier
\* than the watermark the trigger read when its run began; so the watermark
\* moves backward only when another trigger, whose run overlapped, advanced it
\* in between.
C27_NotBeforeOwnSince ==
    [][/\ \A w \in AllWorkers :
            (pc[w] = "stamped" /\ pc'[w] = "done") =>
                /\ Watermark' # Watermark =>
                       /\ Watermark' = req[w].sync_start_time
                       /\ Watermark' >= req[w].last_sync
                /\ Watermark = req[w].last_sync => Watermark' >= Watermark
       /\ (\A w \in AllWorkers : ~(pc[w] = "stamped" /\ pc'[w] = "done")) =>
             Watermark' = Watermark]_vars

\* Two triggers whose runs overlapped have both completed: the one that
\* began first wrote the watermark last, and the watermark is its start time,
\* earlier than the start time the other one had written.
C27_Witness ==
    \E w, o \in AllWorkers :
        /\ TriggerCompleted(w) /\ TriggerCompleted(o)
        /\ Watermark = req[w].sync_start_time
        /\ req[o].sync_start_time > Watermark
        /\ Watermark >= req[w].last_sync

\* C28: when a run returned, the loop ran once for every record of the
\* adapter's output, each run of it counted its record once, as a creation, an
\* update or an error, and trackers_created + trackers_updated + the number
\* of entries of stats.errors is the number of records.
C28_EachRecordCountedOnce ==
    \A w \in AllWorkers :
        RunReturned(w) =>
            /\ Len(log[w]) = Len(gen[w].source)
            /\ \A i \in DOMAIN log[w] :
                  /\ log[w][i].key = gen[w].source[i].source_key
                  /\ <<log[w][i].created, log[w][i].updated, log[w][i].errors>> \in
                        {<<1, 0, 0>>, <<0, 1, 0>>, <<0, 0, 1>>}
            /\ stats[w].trackers_created + stats[w].trackers_updated
                  + Len(stats[w].errors) = Len(gen[w].source)

\* A run of two records returned: one is counted as an error, the other as a
\* creation or an update.
C28_Witness ==
    \E w \in AllWorkers :
        /\ RunReturned(w)
        /\ Len(gen[w].source) = 2
        /\ Len(stats[w].errors) = 1
        /\ stats[w].trackers_created + stats[w].trackers_updated = 1

\* The position of the first occurrence of id among the matches of the text,
\* each in upper case.
FirstOccurrence(text, id) ==
    LET matches == FindAll(text, 1)
    IN CHOOSE i \in DOMAIN matches :
           /\ Upper(matches[i]) = id
           /\ \A j \in 1..(i - 1) : Upper(matches[j]) # id

\* C29: the ids _extract_cve_ids returns stand in the order in which they
\* occur in the summary, so that the last of them, the CVE the Tracker is
\* linked to, is the same for every extraction from the same summary.
C29_IdsInSummaryOrder ==
    (call.fn = "extract" /\ call.returned) =>
        \A i, j \in DOMAIN call.cve_ids :
            i < j => FirstOccurrence(call.summary, call.cve_ids[i])
                        <= FirstOccurrence(call.summary, call.cve_ids[j])

\* The generator of w returned without raising.
GeneratorEnded(w) ==
    /\ gen[w].kind = "jira" /\ req[w].mode = "adapter"
    /\ pc[w] = "commit" \/ (pc[w] = "done" /\ req[w].result = "exhausted")

\* C30 as stated: when issues entered or left the result set between the
\* page requests of a run, the generator has yielded every record that was in
\* the result set during the whole run.
C30_StayingRecordsYielded ==
    \A w \in AllWorkers :
        GeneratorEnded(w) =>
            \A r \in Range(gen[w].source) \ gen[w].unstable : r \in gen[w].yielded

\* C30 as amended: the generator has yielded every record that was in the
\* result set during the whole run and never moved to a lower offset in it.
C30_UnloweredRecordsYielded ==
    \A w \in AllWorkers :
        GeneratorEnded(w) =>
            \A r \in Range(gen[w].source) \ (gen[w].unstable \cup gen[w].lowered) :
                r \in gen[w].yielded

\* A generator ended after two page requests between which an issue entered
\* the result set in front of all others; the last record of the first page
\* and the record behind it stayed and are yielded.
C30_Witness ==
    \E w \in AllWorkers :
        /\ GeneratorEnded(w)
        /\ Len(gen[w].requests) = 2
        /\ gen[w].shifts = 1 /\ gen[w].unstable = {RH} /\ gen[w].source[1] = RH
        /\ Len(gen[w].source) = max_results + 2
        /\ gen[w].source[max_results + 2] \in gen[w].yielded
        /\ RH \notin gen[w].yielded

====
